---- MODULE Spec2Model ----
(***************************************************************************)
(* Simulation core of the hexagonal bubble shooter (GeminiSlingshot).      *)
(*                                                                         *)
(* Lengths are fixed-point: one unit is a tenth of a pixel.  Velocity is   *)
(* tenths of a pixel per tick.  Time is in milliseconds; the two clocks    *)
(* the code reads as differences against performance.now() are kept as     *)
(* the elapsed values themselves (dropElapsed, flightElapsed).             *)
(***************************************************************************)
EXTENDS Integers, Sequences, FiniteSets, TLC

(***************************************************************************)
(* Program constants                                                       *)
(***************************************************************************)
PINCH_THRESHOLD == 5
GRAVITY == 0
FRICTION == 998
BUBBLE_RADIUS == 220
ROW_HEIGHT == 381
GRID_COLS == 12
SLINGSHOT_BOTTOM_OFFSET == 2200
MAX_DRAG_DIST == 1800
MIN_FORCE_MULT == 15
MAX_FORCE_MULT == 45
MAX_LEVELS_PER_STAGE == 5
COLOR_KEYS == <<"red", "blue", "green", "yellow", "purple", "orange">>
Colors == {COLOR_KEYS[i] : i \in 1..Len(COLOR_KEYS)}
Stages == {"sea", "island", "volcano"}

COLOR_CONFIG ==
  [c \in Colors |->
     CASE c = "red"    -> 100
       [] c = "blue"   -> 150
       [] c = "green"  -> 200
       [] c = "yellow" -> 250
       [] c = "purple" -> 300
       [] c = "orange" -> 500]

\* const gridRows = 8 (landing scan covers rows 0 .. gridRows + 5 - 1)
gridRows == 8
\* the danger line lies 150 px above the anchor
DANGER_MARGIN == 1500
\* a flight is abandoned after 5000 ms
FLIGHT_TIMEOUT == 5000
\* capture radius: a pinch starts a draw within 100 px of the ball
CAPTURE_RADIUS == 1000
\* a release fires only beyond a stretch of 30 px
MIN_STRETCH == 300
\* collision distance is BUBBLE_RADIUS * 1.8, sub-step length BUBBLE_RADIUS * 0.8
COLLIDE_DIST == 396
STEP_LEN == 176
\* rows of a fresh grid
baseRows == 4

(***************************************************************************)
(* Arithmetic helpers                                                      *)
(***************************************************************************)
Abs(n) == IF n < 0 THEN -n ELSE n
Min(a, b) == IF a < b THEN a ELSE b
Max(a, b) == IF a > b THEN a ELSE b
\* a * b / c rounded toward zero (fixed-point product)
MulDiv(a, b, c) == IF a < 0 THEN -((-a * b) \div c) ELSE (a * b) \div c

RECURSIVE SqrtUpIn(_, _, _)
\* least r in lo..hi with r * r >= n, by bisection
SqrtUpIn(n, lo, hi) ==
  IF lo >= hi THEN hi
  ELSE LET mid == (lo + hi) \div 2
       IN IF mid * mid >= n THEN SqrtUpIn(n, lo, mid) ELSE SqrtUpIn(n, mid + 1, hi)
\* Math.sqrt rounded up to a whole unit
SqrtUp(n) == SqrtUpIn(n, 0, 40000)
\* a / n rounded toward zero
TruncDiv(a, n) == IF a < 0 THEN -((-a) \div n) ELSE a \div n

DistSq(ax, ay, bx, by) == (ax - bx) * (ax - bx) + (ay - by) * (ay - by)

(***************************************************************************)
(* HexGrid                                                                 *)
(***************************************************************************)
\* rows of 12 columns throughout
ColsInRowMut(r) == GRID_COLS
\* r % 2 !== 0 ? GRID_COLS - 1 : GRID_COLS
ColsInRow(r) == IF r % 2 # 0 THEN GRID_COLS - 1 ELSE GRID_COLS

\* a layout whose odd rows are not shifted by a radius
getBubblePosMut(row, col, width) ==
  LET xOffset == (width - GRID_COLS * BUBBLE_RADIUS * 2) \div 2 + BUBBLE_RADIUS
  IN [x |-> xOffset + col * (BUBBLE_RADIUS * 2),
      y |-> BUBBLE_RADIUS + row * ROW_HEIGHT]

getBubblePos(row, col, width) ==
  LET xOffset == (width - GRID_COLS * BUBBLE_RADIUS * 2) \div 2 + BUBBLE_RADIUS
      isOdd == row % 2 # 0
  IN [x |-> xOffset + col * (BUBBLE_RADIUS * 2) + (IF isOdd THEN BUBBLE_RADIUS ELSE 0),
      y |-> BUBBLE_RADIUS + row * ROW_HEIGHT]

\* an adjacency rule that ignores the parity of a's row
isNeighborMut(a, b) ==
  LET dr == b.row - a.row
      dc == b.col - a.col
  IN IF Abs(dr) > 1 THEN FALSE
     ELSE IF dr = 0 THEN Abs(dc) = 1
     ELSE (dc = -1 \/ dc = 0)

isNeighbor(a, b) ==
  LET dr == b.row - a.row
      dc == b.col - a.col
  IN IF Abs(dr) > 1 THEN FALSE
     ELSE IF dr = 0 THEN Abs(dc) = 1
     ELSE IF a.row % 2 # 0 THEN (dc = 0 \/ dc = 1)
     ELSE (dc = -1 \/ dc = 0)

(***************************************************************************)
(* BubbleField                                                             *)
(***************************************************************************)
\* A bubble: [row, col, x, y, color, active].  Its identity (the id string
\* built from row, col and Date.now()) is its position in the list.
Bubble(r, c, pos, color) ==
  [row |-> r, col |-> c, x |-> pos.x, y |-> pos.y, color |-> color, active |-> TRUE]

RECURSIVE RowCells(_, _)
\* cells (r, c), c = from .. ColsInRow(r) - 1, in column order
RowCells(r, from) ==
  IF from >= ColsInRow(r) THEN <<>> ELSE <<<<r, from>>>> \o RowCells(r, from + 1)

RECURSIVE CellsOfRows(_, _)
\* cells of rows from .. n - 1 in row-major order (the nested for loops)
CellsOfRows(from, n) ==
  IF from >= n THEN <<>> ELSE RowCells(from, 0) \o CellsOfRows(from + 1, n)

\* the colors of all bubbles, popped ones included, in first-seen order
ActiveColorsMut(bs) ==
  LET present == {bs[i].color : i \in 1..Len(bs)}
      first(c) == CHOOSE i \in 1..Len(bs) :
                    /\ bs[i].color = c
                    /\ \A j \in 1..(i - 1) : bs[j].color # c
  IN [k \in 1..Cardinality(present) |->
        CHOOSE c \in present : Cardinality({d \in present : first(d) < first(c)}) = k - 1]

\* Array.from(activeColors): colors of active bubbles in first-seen order
ActiveColors(bs) ==
  LET present == {bs[i].color : i \in {k \in 1..Len(bs) : bs[k].active}}
      first(c) == CHOOSE i \in 1..Len(bs) :
                    /\ bs[i].active /\ bs[i].color = c
                    /\ \A j \in 1..(i - 1) : ~(bs[j].active /\ bs[j].color = c)
  IN [k \in 1..Cardinality(present) |->
        CHOOSE c \in present : Cardinality({d \in present : first(d) < first(c)}) = k - 1]

SeqToSet(s) == {s[i] : i \in 1..Len(s)}

\* updateAvailableColors: the published colors, the selected color after
\* the automatic switch, and whether the level-cleared branch was taken
updateAvailableColors(bs, selected) ==
  LET activeColors == ActiveColors(bs)
      cleared == Len(activeColors) = 0 /\ Len(bs) > 0
  IN [colors   |-> activeColors,
      cleared  |-> cleared,
      selected |-> IF ~cleared /\ selected \notin SeqToSet(activeColors)
                      /\ Len(activeColors) > 0
                   THEN activeColors[1] ELSE selected]

\* initGrid: the new bubble list; pattern[cell] is "gap" where
\* Math.random() > gapChance failed, else the color drawn for the cell
initGridBubbles(pattern, width) ==
  LET cells == SelectSeq(CellsOfRows(0, baseRows), LAMBDA cell : pattern[cell] # "gap")
  IN [i \in 1..Len(cells) |->
        Bubble(cells[i][1], cells[i][2], getBubblePos(cells[i][1], cells[i][2], width),
               pattern[cells[i]])]

\* a ceiling advance whose new row stops one column short
dropCeilingBubblesMut(bs, rowColors, width) ==
  LET shifted == [i \in 1..Len(bs) |->
                   LET pos == getBubblePos(bs[i].row + 1, bs[i].col, width)
                   IN [bs[i] EXCEPT !.row = @ + 1, !.x = pos.x, !.y = pos.y]]
      newRowBubbles == [c \in 1..(GRID_COLS - 1) |->
                   Bubble(0, c - 1, getBubblePos(0, c - 1, width), rowColors[c])]
  IN newRowBubbles \o shifted

\* dropCeiling, steps 1 and 2: shift every bubble one row down, prepend row 0
dropCeilingBubbles(bs, rowColors, width) ==
  LET shifted == [i \in 1..Len(bs) |->
                   LET pos == getBubblePos(bs[i].row + 1, bs[i].col, width)
                   IN [bs[i] EXCEPT !.row = @ + 1, !.x = pos.x, !.y = pos.y]]
      newRowBubbles == [c \in 1..GRID_COLS |->
                   Bubble(0, c - 1, getBubblePos(0, c - 1, width), rowColors[c])]
  IN newRowBubbles \o shifted

\* bubbles.reduce((max, b) => Math.max(max, b.y), 0)
MaxY(bs) ==
  LET ys == {bs[i].y : i \in 1..Len(bs)} \cup {0}
  IN CHOOSE m \in ys : \A y \in ys : y <= m

\* dropCeiling, step 4: the reduce over every bubble of the list
dropCeilingGameOver(bs, anchorY) ==
  LET dangerY == anchorY - DANGER_MARGIN
      lowestBubble == MaxY(bs)
  IN lowestBubble > dangerY

(***************************************************************************)
(* MatchEngine                                                             *)
(***************************************************************************)
Indices(bs) == [i \in 1..Len(bs) |-> i]

\* a neighbor filter that follows links within a row only
neighborsMut(bs, current, visited) ==
  SelectSeq(Indices(bs),
    LAMBDA i : bs[i].active /\ i \notin visited /\ bs[i].row = bs[current].row
               /\ isNeighbor(bs[current], bs[i]))

\* bubbles.current.filter(b => b.active && !visited.has(b.id) && isNeighbor(current, b))
neighbors(bs, current, visited) ==
  SelectSeq(Indices(bs),
    LAMBDA i : bs[i].active /\ i \notin visited /\ isNeighbor(bs[current], bs[i]))

RECURSIVE FloodFill(_, _, _, _, _)
\* the while loop of checkMatches: toCheck is a stack of bubble identities
FloodFill(bs, toCheck, visited, matches, targetColor) ==
  IF toCheck = <<>> THEN matches
  ELSE LET current == toCheck[Len(toCheck)]
           rest == SubSeq(toCheck, 1, Len(toCheck) - 1)
       IN IF current \in visited
          THEN FloodFill(bs, rest, visited, matches, targetColor)
          ELSE LET seen == visited \cup {current}
               IN IF bs[current].color = targetColor
                  THEN FloodFill(bs, rest \o neighbors(bs, current, seen), seen,
                                 Append(matches, current), targetColor)
                  ELSE FloodFill(bs, rest, seen, matches, targetColor)

\* a pop from size 2 on
popsClusterMut(n) == n >= 2
\* if (matches.length >= 3)
popsCluster(n) == n >= 3

\* a multiplier that steps up at size 3 already
comboMultiplierMut(n) == IF n >= 3 THEN 15 ELSE 10
\* matches.length > 3 ? 1.5 : 1.0, in tenths
comboMultiplier(n) == IF n > 3 THEN 15 ELSE 10

\* a short set that still earns its base points
noMatchMut(bs, matches) ==
  [bubbles |-> bs, gained |-> Len(matches) * COLOR_CONFIG[bs[matches[1]].color],
   popped |-> {}, matched |-> FALSE]
\* return false: nothing is written
noMatch(bs, matches) ==
  [bubbles |-> bs, gained |-> 0, popped |-> {}, matched |-> FALSE]

\* checkMatches(startBubble): the list after the pop, the points awarded
\* and the identities popped
checkMatches(bs, start) ==
  LET targetColor == bs[start].color
      matches == FloodFill(bs, <<start>>, {}, <<>>, targetColor)
      popped == SeqToSet(matches)
  IN IF popsCluster(Len(matches))
     THEN LET points == Len(matches) * COLOR_CONFIG[targetColor]
          IN [bubbles |-> [i \in 1..Len(bs) |->
                             IF i \in popped THEN [bs[i] EXCEPT !.active = FALSE]
                             ELSE bs[i]],
              gained  |-> (points * comboMultiplier(Len(matches))) \div 10,
              popped  |-> popped,
              matched |-> TRUE]
     ELSE noMatch(bs, matches)

(***************************************************************************)
(* ProjectilePhysics                                                       *)
(***************************************************************************)
Point(px, py) == [x |-> px, y |-> py]

\* Math.ceil(currentSpeed / (BUBBLE_RADIUS * 0.8))
stepCount(vel) ==
  LET speedSq == vel.x * vel.x + vel.y * vel.y
  IN CHOOSE n \in 0..16 :
       /\ (n * STEP_LEN) * (n * STEP_LEN) >= speedSq
       /\ (n = 0 \/ ((n - 1) * STEP_LEN) * ((n - 1) * STEP_LEN) < speedSq)

\* the collision test of one sub-step against the active bubbles
hitsBubble(bs, pos) ==
  \E i \in 1..Len(bs) :
     /\ bs[i].active
     /\ DistSq(pos.x, pos.y, bs[i].x, bs[i].y) < COLLIDE_DIST * COLLIDE_DIST

\* a reflection that leaves the projectile where the step carried it
clampToWallsMut(x, width) == x
\* Math.max(BUBBLE_RADIUS, Math.min(canvas.width - BUBBLE_RADIUS, x))
clampToWalls(x, width) == Max(BUBBLE_RADIUS, Min(width - BUBBLE_RADIUS, x))

\* one sub-step: the move by vel / steps, then the reflection at a side wall
subStep(pos, vel, steps, width) ==
  LET movedX == pos.x + TruncDiv(vel.x, steps)
      movedY == pos.y + TruncDiv(vel.y, steps)
      bounce == movedX < BUBBLE_RADIUS \/ movedX > width - BUBBLE_RADIUS
  IN [pos |-> IF bounce THEN Point(clampToWalls(movedX, width), movedY)
              ELSE Point(movedX, movedY),
      vel |-> IF bounce THEN Point(-vel.x, vel.y) ELSE vel,
      bounced |-> bounce]

RECURSIVE subSteps(_, _, _, _, _, _)
\* the sub-step loop: i-th of steps sub-steps; ends at the first collision
subSteps(bs, pos, vel, i, steps, width) ==
  IF i >= steps THEN [pos |-> pos, vel |-> vel, collisionOccurred |-> FALSE]
  ELSE LET st   == subStep(pos, vel, steps, width)
           pos2 == st.pos
           vel2 == st.vel
       IN IF pos2.y < BUBBLE_RADIUS \/ hitsBubble(bs, pos2)
          THEN [pos |-> pos2, vel |-> vel2, collisionOccurred |-> TRUE]
          ELSE \* the next sub-step starts from the values this one computed
               CHOOSE res \in {subSteps(bs, p[1], p[2], i + 1, steps, width) :
                                 p \in {<<pos2, vel2>>}} : TRUE

RECURSIVE subStepTrace(_, _, _, _, _, _)
\* the projectile after each sub-step the loop runs: position, velocity, the
\* velocity the sub-step started with, and whether it reflected
subStepTrace(bs, pos, vel, i, steps, width) ==
  IF i >= steps THEN <<>>
  ELSE LET st == subStep(pos, vel, steps, width)
           at == [pos |-> st.pos, vel |-> st.vel, before |-> vel, bounced |-> st.bounced]
       IN IF st.pos.y < BUBBLE_RADIUS \/ hitsBubble(bs, st.pos)
          THEN <<at>>
          ELSE <<at>> \o subStepTrace(bs, st.pos, st.vel, i + 1, steps, width)

\* an occupancy test that counts popped bubbles too
OccupiedCellsMut(bs) == {<<bs[i].row, bs[i].col>> : i \in 1..Len(bs)}
\* bubbles.current.some(b => b.active && b.row === r && b.col === c)
OccupiedCells(bs) == {<<bs[i].row, bs[i].col>> : i \in {k \in 1..Len(bs) : bs[k].active}}

ScanCells == CellsOfRows(0, gridRows + 5)

\* the cell the landing scan ends with, given the least distance found
nearestAt(empty, pos, width, minDist) ==
  LET best == CHOOSE k \in empty :
                /\ DistSq(pos.x, pos.y,
                          getBubblePos(ScanCells[k][1], ScanCells[k][2], width).x,
                          getBubblePos(ScanCells[k][1], ScanCells[k][2], width).y) = minDist
                /\ \A j \in empty :
                     j < k => DistSq(pos.x, pos.y,
                                getBubblePos(ScanCells[j][1], ScanCells[j][2], width).x,
                                getBubblePos(ScanCells[j][1], ScanCells[j][2], width).y)
                              # minDist
  IN [found |-> TRUE, row |-> ScanCells[best][1], col |-> ScanCells[best][2],
      x |-> getBubblePos(ScanCells[best][1], ScanCells[best][2], width).x,
      y |-> getBubblePos(ScanCells[best][1], ScanCells[best][2], width).y]

\* the least of a non-empty set of numbers
Least(ds) == CHOOSE d \in ds : \A e \in ds : d <= e

\* the scan over the cells not held by an active bubble
nearestAmong(empty, pos, width) ==
  IF empty = {}
  THEN [found |-> FALSE, row |-> 0, col |-> 0, x |-> 0, y |-> 0]
  ELSE nearestAt(empty, pos, width,
         Least({DistSq(pos.x, pos.y,
                       getBubblePos(ScanCells[k][1], ScanCells[k][2], width).x,
                       getBubblePos(ScanCells[k][1], ScanCells[k][2], width).y)
                : k \in empty}))

\* the landing scan: bestDist = Infinity, bestRow = bestCol = bestX = bestY = 0,
\* then the first empty cell of the scan at the least distance
nearestEmptyCell(bs, pos, width) ==
  nearestAmong({k \in 1..Len(ScanCells) : ScanCells[k] \notin OccupiedCells(bs)},
               pos, width)

\* a multiplier that grows linearly with the power ratio, in 1/10000
velocityMultiplierMut(stretchSq) ==
  MIN_FORCE_MULT * 100
    + ((MAX_FORCE_MULT - MIN_FORCE_MULT) * 100 * Min(SqrtUp(stretchSq), MAX_DRAG_DIST))
        \div MAX_DRAG_DIST
\* MIN_FORCE_MULT + (MAX_FORCE_MULT - MIN_FORCE_MULT) * powerRatio^2, in 1/10000
velocityMultiplier(stretchSq) ==
  LET maxSq == (MAX_DRAG_DIST * MAX_DRAG_DIST) \div 100
      ratioSq == Min(stretchSq \div 100, maxSq)
  IN MIN_FORCE_MULT * 100 + ((MAX_FORCE_MULT - MIN_FORCE_MULT) * 100 * ratioSq) \div maxSq

\* the radial clamp of the drawn ball to MAX_DRAG_DIST around the anchor
clampDrag(anchor, hand) ==
  LET dragDx == hand.x - anchor.x
      dragDy == hand.y - anchor.y
      distSq == dragDx * dragDx + dragDy * dragDy
  IN IF distSq > MAX_DRAG_DIST * MAX_DRAG_DIST
     THEN LET dragDist == SqrtUp(distSq)
          IN Point(anchor.x + MulDiv(dragDx, MAX_DRAG_DIST, dragDist),
                   anchor.y + MulDiv(dragDy, MAX_DRAG_DIST, dragDist))
     ELSE Point(hand.x, hand.y)

(***************************************************************************)
(* TargetingAnalyzer                                                       *)
(***************************************************************************)
\* Math.ceil(distance / (BUBBLE_RADIUS / 2))
pathSteps(distSq) ==
  CHOOSE n \in 0..200 :
    /\ (n * (BUBBLE_RADIUS \div 2)) * (n * (BUBBLE_RADIUS \div 2)) >= distSq
    /\ (n = 0 \/ ((n - 1) * (BUBBLE_RADIUS \div 2)) * ((n - 1) * (BUBBLE_RADIUS \div 2))
                   < distSq)

\* the sample points the loop of isPathClear visits: i = 1 .. steps - 3
pathSamples(anchor, tx, ty) ==
  LET dx == tx - anchor.x
      dy == ty - anchor.y
      steps == pathSteps(dx * dx + dy * dy)
  IN [i \in 1..(steps - 3) |->
        Point(anchor.x + TruncDiv(dx * i, steps), anchor.y + TruncDiv(dy * i, steps))]

\* a path test that skips bubbles of the target's color
blocksPathMut(bs, target, j) ==
  bs[j].active /\ j # target /\ bs[j].color # bs[target].color
\* if (!b.active || b.id === target.id) continue
blocksPath(bs, target, j) == bs[j].active /\ j # target

\* isPathClear(target), target a bubble of the list
isPathClear(bs, anchor, target) ==
  LET samples == pathSamples(anchor, bs[target].x, bs[target].y)
  IN \A i \in 1..Len(samples) :
       \A j \in 1..Len(bs) :
          blocksPath(bs, target, j) =>
            ~(DistSq(samples[i].x, samples[i].y, bs[j].x, bs[j].y)
                < COLLIDE_DIST * COLLIDE_DIST)

\* a filter that takes every neighbor, whatever its color
joinsClusterMut(bs, color, curr, n) == isNeighbor(bs[curr], bs[n])
\* n.color === color && isNeighbor(curr, n)
joinsCluster(bs, color, curr, n) == bs[n].color = color /\ isNeighbor(bs[curr], bs[n])

RECURSIVE expandLevel(_, _, _, _, _, _, _)
\* the queue entries level[k], level[k + 1], ... leave the queue one after the
\* other: each pushes its unvisited neighbors of the color behind the queue
expandLevel(bs, act, color, level, k, visited, pushed) ==
  IF k > Len(level) THEN [pushed |-> pushed, visited |-> visited]
  ELSE LET found == SelectSeq(act, LAMBDA n : /\ n \notin visited
                                               /\ joinsCluster(bs, color, level[k], n))
       IN expandLevel(bs, act, color, level, k + 1, visited \cup SeqToSet(found),
                      pushed \o found)

RECURSIVE clusterBfs(_, _, _, _, _, _)
\* the while loop over the queue, a stretch of the queue at a time: level is
\* what the queue holds, and what its entries push is the queue after them;
\* the members come out in the order they leave the queue
clusterBfs(bs, act, color, level, visited, clusterMembers) ==
  IF level = <<>> THEN [members |-> clusterMembers, visited |-> visited]
  ELSE LET e == expandLevel(bs, act, color, level, 1, visited, <<>>)
       IN clusterBfs(bs, act, color, e.pushed, e.visited, clusterMembers \o level)

\* the first member in descending y, whether its path is clear or not
hittableMemberMut(bs, anchor, members) ==
  CHOOSE p \in 1..Len(members) :
    \A q \in 1..Len(members) :
       \/ bs[members[q]].y < bs[members[p]].y
       \/ (bs[members[q]].y = bs[members[p]].y /\ q >= p)

\* clusterMembers.sort((a, b) => b.y - a.y) and find(m => isPathClear(m)):
\* the position in members of the first member with a clear path in
\* descending y, members of equal y in their order in members; 0 if none
hittableMember(bs, anchor, members) ==
  LET clear == {p \in 1..Len(members) : isPathClear(bs, anchor, members[p])}
  IN IF clear = {} THEN 0
     ELSE CHOOSE p \in clear :
            \A q \in clear :
               \/ bs[members[q]].y < bs[members[p]].y
               \/ (bs[members[q]].y = bs[members[p]].y /\ q >= p)

\* the entry pushed to allClusters for a cluster, if it has a hittable member
candidateOf(bs, anchor, width, color, members) ==
  LET p == hittableMember(bs, anchor, members)
  IN IF p = 0 THEN <<>>
     ELSE <<[id |-> members[p], color |-> color, size |-> Len(members),
             row |-> bs[members[p]].row, col |-> bs[members[p]].col,
             pointsPerBubble |-> COLOR_CONFIG[color],
             description |-> IF bs[members[p]].x * 100 < 33 * width THEN "Left"
                             ELSE IF bs[members[p]].x * 100 > 66 * width THEN "Right"
                             ELSE "Center"]>>

RECURSIVE clustersOfColor(_, _, _, _, _, _)
\* the inner for loop over activeBubbles for one color: it skips to the next
\* bubble of the color that no cluster has visited, explores its cluster and
\* goes on behind it
clustersOfColor(bs, act, anchor, width, color, visited) ==
  LET seeds == {k \in 1..Len(act) : bs[act[k]].color = color /\ act[k] \notin visited}
  IN IF seeds = {} THEN <<>>
     ELSE LET from == CHOOSE k \in seeds : \A j \in seeds : k <= j
              c == clusterBfs(bs, act, color, <<act[from]>>, visited \cup {act[from]},
                              <<>>)
          IN <<[color |-> color, members |-> c.members,
                candidate |-> candidateOf(bs, anchor, width, color, c.members)]>>
             \o clustersOfColor(bs, act, anchor, width, color, c.visited)

RECURSIVE exploredFrom(_, _, _, _, _, _)
\* the outer for loop over uniqueColors
exploredFrom(bs, act, anchor, width, colors, k) ==
  IF k > Len(colors) THEN <<>>
  ELSE clustersOfColor(bs, act, anchor, width, colors[k], {})
       \o exploredFrom(bs, act, anchor, width, colors, k + 1)

\* every cluster getAllReachableClusters explores, in the order it explores them
exploredClusters(bs, anchor, width) ==
  exploredFrom(bs, SelectSeq(Indices(bs), LAMBDA i : bs[i].active), anchor, width,
               ActiveColors(bs), 1)

RECURSIVE candidatesOf(_, _)
candidatesOf(clusters, k) ==
  IF k > Len(clusters) THEN <<>>
  ELSE clusters[k].candidate \o candidatesOf(clusters, k + 1)

\* getAllReachableClusters(): allClusters
getAllReachableClusters(bs, anchor, width) ==
  candidatesOf(exploredClusters(bs, anchor, width), 1)

(***************************************************************************)
(* State                                                                   *)
(***************************************************************************)
VARIABLES
  canvas,             \* canvas.width, canvas.height
  anchorPos,          \* anchorPos.current
  ballPos,            \* ballPos.current
  ballVel,            \* ballVel.current
  isPinching,         \* isPinching.current
  isFlying,           \* isFlying.current
  flightElapsed,      \* performance.now() - flightStartTime.current, while flying
  dropElapsed,        \* performance.now() - lastDropTimeRef.current
  bubbles,            \* bubbles.current
  score,              \* scoreRef.current and the score state
  selectedColor,      \* selectedColor and selectedColorRef.current
  availableColors,    \* availableColors
  isGameOver,
  isMenuOpen,
  gameStage,
  unlockedStages,
  currentLevel,
  effUnlocked,        \* unlockedStages as captured by the running game-loop effect
  levelTimers,        \* pending level-cleared timeouts, each with its closure
  effectDirty,        \* a dependency of the game-loop effect changed: it re-runs
  captureRequestRef,  \* captureRequestRef.current
  scanTimers,         \* pending 2000 ms timeouts of initGrid
  analysisQueued,     \* pending setTimeout(performAiAnalysis, 0) calls
  requests,           \* getStrategicHint calls whose promise is unresolved
  isAiThinking,       \* isAiThinking and isAiThinkingRef.current
  aimTarget,          \* aimTarget and aimTargetRef.current
  aiRecommendedColor,
  shots,              \* launches so far (bounds the run)
  drops,              \* ceiling advances so far (bounds the run)
  clears,             \* level clears so far (bounds the run)
  lastEvent           \* what the last step did (observation only)

vars == <<canvas, anchorPos, ballPos, ballVel, isPinching, isFlying, flightElapsed,
          dropElapsed, bubbles, score, selectedColor, availableColors, isGameOver,
          isMenuOpen, gameStage, unlockedStages, currentLevel, effUnlocked,
          levelTimers, effectDirty, captureRequestRef, scanTimers, analysisQueued,
          requests, isAiThinking, aimTarget, aiRecommendedColor, shots, drops,
          clears, lastEvent>>

coreVars == <<canvas, anchorPos, ballPos, ballVel, isPinching, isFlying, flightElapsed,
              dropElapsed, bubbles, score, selectedColor, availableColors, isGameOver,
              isMenuOpen, gameStage, unlockedStages, currentLevel, effUnlocked,
              levelTimers, effectDirty>>

(***************************************************************************)
(* Bounds and input sets                                                   *)
(***************************************************************************)
\* at most this many advisor requests are tracked at once
MaxRequests == 2
\* at most this many initial-scan timeouts are tracked at once
MaxScanTimers == 1
\* at most this many level-cleared timeouts are tracked at once
MaxLevelTimers == 1
\* launches followed per run
MaxShots == 1
\* ceiling advances followed per run
MaxDrops == 2
\* level clears followed per run
MaxClears == 1

\* container sizes (clientWidth, clientHeight), in tenths of a pixel
Containers == {<<6000, 5500>>}

\* sizes the container takes when the window is resized
ResizedContainers == {<<6000, 5500>>, <<6400, 5500>>}

\* time between two frames, ms: below the resolution of the timers, or a stall
TickDeltas == {0, 20000}

\* frame intervals up to a stall of a day
LongDeltas == TickDeltas \cup {86400000}

\* hand inputs: none, or a position (as an offset from the anchor) with the
\* thumb-index distance in hundredths of the normalised frame
NoHand == [present |-> FALSE, dx |-> 0, dy |-> 0, pinchDist |-> 100]
HandInputs ==
  {NoHand}
  \cup {[present |-> TRUE, dx |-> 0, dy |-> 300, pinchDist |-> 3],
        [present |-> TRUE, dx |-> 0, dy |-> 2600, pinchDist |-> 3]}

\* hands in the frame with the trigger disengaged: at the projectile's rest
\* position with the pinch distance at the threshold, and away from it
OpenHands ==
  {[present |-> TRUE, dx |-> 0, dy |-> 0, pinchDist |-> 5],
   [present |-> TRUE, dx |-> 400, dy |-> 300, pinchDist |-> 40]}

InitCellSet == SeqToSet(CellsOfRows(0, baseRows))

\* outcomes of the random draws of initGrid: every cell is a gap or a color
PatternMixed ==
  [cell \in InitCellSet |->
     IF cell \in {<<2, 4>>, <<3, 4>>} THEN "red"
     ELSE IF cell = <<3, 5>> THEN "blue" ELSE "gap"]
PatternTriple ==
  [cell \in InitCellSet |->
     IF cell \in {<<3, 4>>, <<3, 5>>, <<2, 5>>} THEN "red" ELSE "gap"]
GridPatterns == {PatternMixed, PatternTriple}

\* draws of initGrid in which Math.random() > gapChance holds for every cell;
\* the colors run through COLOR_KEYS along the rows, from three offsets
FullPatterns ==
  {[cell \in InitCellSet |-> COLOR_KEYS[((2 * cell[1] + cell[2] + k) % 6) + 1]]
     : k \in 0..2}

\* outcomes of the random draws of dropCeiling: the colors of the new row
RowPatterns == {[c \in 1..GRID_COLS |-> "blue"]}

\* advisor responses: a target cell or none, a recommended color or none
NoColor == "none"
Responses ==
  {[hasTarget |-> FALSE, targetRow |-> 0, targetCol |-> 0, recommendedColor |-> NoColor],
   [hasTarget |-> TRUE, targetRow |-> 0, targetCol |-> 0, recommendedColor |-> "red"]}

\* where a run starts: the component as constructed, or the first level of
\* the first stage as it is entered again after its five levels were cleared
\* (600 points each), which unlocked the second stage
Sessions ==
  {[score |-> 0, unlocked |-> <<"sea">>],
   [score |-> 3000, unlocked |-> <<"sea", "island">>]}

(***************************************************************************)
(* The frame handler onResults                                             *)
(***************************************************************************)
NoEvent ==
  [dropped |-> FALSE, gameOverSignalled |-> FALSE,
   released |-> FALSE, stretchSq |-> 0, analysed |-> FALSE, allClusters |-> <<>>,
   launched |-> FALSE, launchVel |-> [x |-> 0, y |-> 0], landed |-> FALSE,
   hitPos |-> [x |-> 0, y |-> 0], landedAt |-> 0, popped |-> {}, gained |-> 0,
   timedOut |-> FALSE, offScreen |-> FALSE]

\* an interval of 20000 ms in the first stage too
dropIntervalMut(stage) ==
  CASE stage = "volcano" -> [finite |-> TRUE, ms |-> 10000]
    [] OTHER             -> [finite |-> TRUE, ms |-> 20000]
\* let dropInterval = Infinity; 20000 for 'island', 10000 for 'volcano'
dropInterval(stage) ==
  CASE stage = "island"  -> [finite |-> TRUE, ms |-> 20000]
    [] stage = "volcano" -> [finite |-> TRUE, ms |-> 10000]
    [] OTHER             -> [finite |-> FALSE, ms |-> 0]

\* now - lastDropTimeRef.current after dt more milliseconds; values past the
\* stage interval are indistinguishable to the code and kept as interval + 1
elapsedAfter(stage, elapsed, dt) ==
  IF dropInterval(stage).finite
  THEN Min(elapsed + dt, dropInterval(stage).ms + 1)
  ELSE 0

\* input that stays open under the menu
canInteractMenuMut(s) == ~s.isGameOver
\* input that waits for the advisor
canInteractMut(s) == ~s.isMenuOpen /\ ~s.isGameOver /\ ~s.isAiThinking
\* const canInteract = !isMenuOpen && !isGameOver
canInteract(s) == ~s.isMenuOpen /\ ~s.isGameOver

\* an aiming branch that does not look at the flight
startsPinchMut(can, engaged, flying) == can /\ engaged
\* the condition of the aiming branch
startsPinch(can, engaged, flying) == can /\ engaged /\ ~flying

\* a release that fires at a stretch of 30 px already
firesMut(stretchSq) == stretchSq >= MIN_STRETCH * MIN_STRETCH
\* if (stretchDist > 30)
fires(stretchSq) == stretchSq > MIN_STRETCH * MIN_STRETCH

\* a release branch that waits for an open hand in the frame
releasesMut(can, pinching, hand) ==
  can /\ pinching /\ hand.present /\ hand.pinchDist >= PINCH_THRESHOLD
\* the condition of the release branch
releases(can, pinching, hand) ==
  can /\ pinching /\ (~hand.present \/ hand.pinchDist >= PINCH_THRESHOLD)

\* the input state machine (aim, release, ease back): the projectile after it
inputStep(s, hand) ==
  LET can     == canInteract(s)
      handPos == Point(s.anchorPos.x + hand.dx, s.anchorPos.y + hand.dy)
      engaged == hand.present /\ hand.pinchDist < PINCH_THRESHOLD
  IN IF startsPinch(can, engaged, s.isFlying)
     THEN LET distToBallSq == DistSq(handPos.x, handPos.y, s.ballPos.x, s.ballPos.y)
              pinching == s.isPinching \/ distToBallSq < CAPTURE_RADIUS * CAPTURE_RADIUS
          IN [isPinching |-> pinching, isFlying |-> s.isFlying,
              ballPos |-> IF pinching THEN clampDrag(s.anchorPos, handPos) ELSE s.ballPos,
              ballVel |-> s.ballVel, launched |-> FALSE, released |-> FALSE,
              stretchSq |-> 0]
     ELSE IF releases(can, s.isPinching, hand)
     THEN LET dx == s.anchorPos.x - s.ballPos.x
              dy == s.anchorPos.y - s.ballPos.y
              stretchSq == dx * dx + dy * dy
          IN IF fires(stretchSq)
             THEN [isPinching |-> FALSE, isFlying |-> TRUE, ballPos |-> s.ballPos,
                   ballVel |-> Point(MulDiv(dx, velocityMultiplier(stretchSq), 10000),
                                     MulDiv(dy, velocityMultiplier(stretchSq), 10000)),
                   launched |-> TRUE, released |-> TRUE, stretchSq |-> stretchSq]
             ELSE [isPinching |-> FALSE, isFlying |-> FALSE, ballPos |-> s.anchorPos,
                   ballVel |-> s.ballVel, launched |-> FALSE, released |-> TRUE,
                   stretchSq |-> stretchSq]
     ELSE IF ~s.isFlying /\ ~s.isPinching
     THEN [isPinching |-> FALSE, isFlying |-> FALSE,
           ballPos |-> Point(s.ballPos.x + MulDiv(s.anchorPos.x - s.ballPos.x, 15, 100),
                             s.ballPos.y + MulDiv(s.anchorPos.y - s.ballPos.y, 15, 100)),
           ballVel |-> s.ballVel, launched |-> FALSE, released |-> FALSE,
           stretchSq |-> 0]
     ELSE [isPinching |-> s.isPinching, isFlying |-> s.isFlying, ballPos |-> s.ballPos,
           ballVel |-> s.ballVel, launched |-> FALSE, released |-> FALSE,
           stretchSq |-> 0]

\* the landing resolution of a collision: snap, push, checkMatches
landing(bs, pos, color, width) ==
  LET best == nearestEmptyCell(bs, pos, width)
      newBubble == [row |-> best.row, col |-> best.col, x |-> best.x, y |-> best.y,
                    color |-> color, active |-> TRUE]
      placed == Append(bs, newBubble)
      m == checkMatches(placed, Len(placed))
  IN [bubbles |-> m.bubbles, landedAt |-> Len(placed), popped |-> m.popped,
      gained |-> m.gained]

\* the drop timer of the frame, given the clock reading and the field after
\* a drop, if one is due
dropResult(s, elapsed, dropNow, bs1) ==
  [dropNow  |-> dropNow,
   elapsed  |-> IF dropNow THEN 0 ELSE elapsed,
   bubbles  |-> bs1,
   over     |-> dropNow /\ dropCeilingGameOver(bs1, s.anchorPos.y),
   uac      |-> IF dropNow THEN updateAvailableColors(bs1, s.selectedColor)
                ELSE [colors |-> s.availableColors, cleared |-> FALSE,
                      selected |-> s.selectedColor]]

\* a timer that the menu and the end of the game do not stop
dropDueMut(timerOn, elapsed, interval) == interval.finite /\ elapsed > interval.ms
\* the two conditions around the call of dropCeiling
dropDue(timerOn, elapsed, interval) == timerOn /\ elapsed > interval.ms

\* if (!isMenuOpen && !isGameOver && dropInterval !== Infinity)
\*   if (now - lastDropTimeRef.current > dropInterval) dropCeiling(...)
dropStep(s, dt, rowColors) ==
  LET interval == dropInterval(s.gameStage)
      timerOn  == ~s.isMenuOpen /\ ~s.isGameOver /\ interval.finite
      elapsed  == elapsedAfter(s.gameStage, s.dropElapsed, dt)
      dropNow  == dropDue(timerOn, elapsed, interval)
  IN dropResult(s, elapsed, dropNow,
                IF dropNow THEN dropCeilingBubbles(s.bubbles, rowColors, s.canvas.w)
                ELSE s.bubbles)

\* a flight that a collision does not end
staysInFlightMut(moving, landed, offScreen) == moving /\ ~offScreen
\* isFlying.current after the physics block: cleared by the timeout, by a
\* collision and below the canvas
staysInFlight(moving, landed, offScreen) == moving /\ ~landed /\ ~offScreen

\* the outcome of the physics block, given the sub-step loop's result
flightResult(s, inp, flightMs, timedOut, sub) ==
  LET moving    == inp.isFlying /\ ~timedOut
      landed    == moving /\ sub.collisionOccurred
      offScreen == moving /\ ~landed /\ sub.pos.y > s.canvas.h
  IN [flightMs  |-> flightMs,
      timedOut  |-> timedOut,
      landed    |-> landed,
      offScreen |-> offScreen,
      isFlying  |-> staysInFlight(moving, landed, offScreen),
      pos       |-> sub.pos,
      vel       |-> Point(MulDiv(sub.vel.x, FRICTION, 1000),
                          MulDiv(sub.vel.y + GRAVITY, FRICTION, 1000))]

\* a flight with no time limit
timesOutMut(flightMs) == FALSE
\* performance.now() - flightStartTime.current > 5000
timesOut(flightMs) == flightMs > FLIGHT_TIMEOUT

\* if (isFlying.current): the timeout, then the sub-step loop
flightStep(s, dt, inp, bs1) ==
  LET flightMs == IF inp.launched THEN 0
                  ELSE Min(s.flightElapsed + dt, FLIGHT_TIMEOUT + 1)
  IN flightResult(s, inp, flightMs, inp.isFlying /\ timesOut(flightMs),
                  subSteps(bs1, inp.ballPos, inp.ballVel, 0, stepCount(inp.ballVel),
                           s.canvas.w))

NoLanding == [bubbles |-> <<>>, landedAt |-> 0, popped |-> {}, gained |-> 0]

\* a scan requested at every end of a flight
requestsScanMut(pending, fl) == pending \/ fl.landed \/ fl.timedOut \/ fl.offScreen
\* captureRequestRef.current when the frame reaches the capture block: set
\* before the frame, or by the landing branch
requestsScan(pending, fl) == pending \/ fl.landed

\* what the frame leaves behind
frameResult(s, inp, drp, fl, land, uac2) ==
  [isPinching    |-> inp.isPinching,
   isFlying      |-> fl.isFlying,
   ballPos       |-> IF fl.isFlying THEN fl.pos
                     ELSE IF inp.isFlying THEN s.anchorPos ELSE inp.ballPos,
   ballVel       |-> IF fl.isFlying THEN fl.vel
                     ELSE IF inp.isFlying THEN Point(0, 0) ELSE inp.ballVel,
   flightElapsed |-> IF fl.isFlying THEN fl.flightMs ELSE 0,
   dropElapsed   |-> drp.elapsed,
   bubbles       |-> IF fl.landed THEN land.bubbles ELSE drp.bubbles,
   score         |-> IF fl.landed THEN s.score + land.gained ELSE s.score,
   selectedColor |-> IF fl.landed THEN uac2.selected
                     ELSE IF drp.dropNow THEN drp.uac.selected ELSE s.selectedColor,
   availableColors |-> IF fl.landed THEN uac2.colors
                       ELSE IF drp.dropNow THEN drp.uac.colors ELSE s.availableColors,
   isGameOver    |-> s.isGameOver \/ drp.over,
   levelCleared  |-> fl.landed /\ uac2.cleared,
   queued        |-> requestsScan(s.captureRequestRef, fl),
   event         |-> [dropped |-> drp.dropNow,
                      gameOverSignalled |-> drp.over,
                      released |-> inp.released, stretchSq |-> inp.stretchSq,
                      analysed |-> FALSE, allClusters |-> <<>>,
                      launched |-> inp.launched,
                      launchVel |-> IF inp.launched THEN inp.ballVel ELSE Point(0, 0),
                      landed |-> fl.landed,
                      hitPos |-> IF fl.landed THEN fl.pos ELSE Point(0, 0),
                      landedAt |-> IF fl.landed THEN land.landedAt ELSE 0,
                      popped |-> IF fl.landed THEN land.popped ELSE {},
                      gained |-> IF fl.landed THEN land.gained ELSE 0,
                      timedOut |-> fl.timedOut, offScreen |-> fl.offScreen]]

afterLanding(s, inp, drp, fl, land) ==
  frameResult(s, inp, drp, fl, land,
              updateAvailableColors(land.bubbles, s.selectedColor))

afterFlight(s, inp, drp, fl) ==
  afterLanding(s, inp, drp, fl,
               IF fl.landed
               THEN landing(drp.bubbles, fl.pos, s.selectedColor, s.canvas.w)
               ELSE NoLanding)

afterInput(s, dt, inp, drp) ==
  afterFlight(s, inp, drp, flightStep(s, dt, inp, drp.bubbles))

\* onResults: one frame.  s is the state the handler and its closure see,
\* hand the detected hand, dt the time since the previous frame, rowColors
\* the colors drawn if the ceiling drops in this frame.
onResults(s, hand, dt, rowColors) ==
  afterInput(s, dt, inputStep(s, hand), dropStep(s, dt, rowColors))

\* the head of onResults when the container is not the size of the canvas:
\* the canvas takes the container's size, the anchor moves, and a projectile
\* that is neither flying nor drawn moves with it
resizeStep(s, container) ==
  LET anchor == Point(container[1] \div 2, container[2] - SLINGSHOT_BOTTOM_OFFSET)
  IN [s EXCEPT !.canvas = [w |-> container[1], h |-> container[2]],
               !.anchorPos = anchor,
               !.ballPos = IF ~s.isFlying /\ ~s.isPinching THEN anchor ELSE @]

(***************************************************************************)
(* Initial state and actions                                               *)
(***************************************************************************)
State ==
  [canvas |-> canvas, anchorPos |-> anchorPos, ballPos |-> ballPos, ballVel |-> ballVel,
   isPinching |-> isPinching, isFlying |-> isFlying, flightElapsed |-> flightElapsed,
   dropElapsed |-> dropElapsed, bubbles |-> bubbles, score |-> score,
   selectedColor |-> selectedColor, availableColors |-> availableColors,
   isGameOver |-> isGameOver, isMenuOpen |-> isMenuOpen, gameStage |-> gameStage,
   captureRequestRef |-> captureRequestRef, isAiThinking |-> isAiThinking,
   aimTarget |-> aimTarget, aiRecommendedColor |-> aiRecommendedColor]

NoTarget == [set |-> FALSE, x |-> 0, y |-> 0]

\* the component as constructed, before the game-loop effect has run
Init ==
  /\ canvas \in {[w |-> c[1], h |-> c[2]] : c \in Containers}
  /\ anchorPos = Point(0, 0)
  /\ ballPos = Point(0, 0)
  /\ ballVel = Point(0, 0)
  /\ isPinching = FALSE
  /\ isFlying = FALSE
  /\ flightElapsed = 0
  /\ dropElapsed = 0
  /\ bubbles = <<>>
  /\ \E ses \in Sessions :
       /\ score = ses.score
       /\ unlockedStages = ses.unlocked
       /\ effUnlocked = ses.unlocked
  /\ selectedColor = "red"
  /\ availableColors = <<>>
  /\ isGameOver = FALSE
  /\ isMenuOpen = FALSE
  /\ gameStage = "sea"
  /\ currentLevel = 1
  /\ levelTimers = <<>>
  /\ effectDirty = TRUE
  /\ captureRequestRef = FALSE
  /\ scanTimers = 0
  /\ analysisQueued = 0
  /\ requests = <<>>
  /\ isAiThinking = FALSE
  /\ aimTarget = NoTarget
  /\ aiRecommendedColor = NoColor
  /\ shots = 0
  /\ drops = 0
  /\ clears = 0
  /\ lastEvent = NoEvent

\* initGrid as every caller uses it: the grid, the published colors, the
\* drop timer reset and the 2000 ms timeout that requests the first scan;
\* calls is the number of initGrid calls made before the step ends
InitGridStep(pattern, calls) ==
  LET grid == initGridBubbles(pattern, canvas.w)
      uac  == updateAvailableColors(grid, selectedColor)
  IN /\ bubbles' = grid
     /\ availableColors' = uac.colors
     /\ selectedColor' = uac.selected
     /\ dropElapsed' = 0
     /\ scanTimers' = Min(scanTimers + calls, MaxScanTimers)

\* the body of the main game-loop effect: anchor, projectile, initGrid, and
\* the closure the frame handler will run with
Mount(pattern, calls) ==
  /\ InitGridStep(pattern, calls)
  /\ anchorPos' = Point(canvas.w \div 2, canvas.h - SLINGSHOT_BOTTOM_OFFSET)
  /\ ballPos' = Point(canvas.w \div 2, canvas.h - SLINGSHOT_BOTTOM_OFFSET)
  /\ effUnlocked' = unlockedStages'

\* the render that follows a handler: the effect re-runs iff a dependency
\* (currentLevel, gameStage, isGameOver, isMenuOpen) changed; t and language,
\* which come from LanguageContext, are taken to change with the language
\* only, and the language is kept
Rerender(depsChanged) ==
  IF depsChanged
  THEN \E pattern \in GridPatterns : Mount(pattern, 1)
  ELSE UNCHANGED <<bubbles, availableColors, selectedColor, dropElapsed, scanTimers,
                   anchorPos, ballPos, effUnlocked>>

\* the main game-loop effect run at mount, and re-run after a frame signalled
\* game over, the grid drawn from patterns
GameLoopEffectFrom(patterns) ==
  /\ effectDirty
  /\ effectDirty' = FALSE
  /\ lastEvent' = NoEvent
  /\ UNCHANGED <<canvas, ballVel, isPinching, isFlying, flightElapsed, score,
                 isGameOver, isMenuOpen, gameStage, unlockedStages, currentLevel,
                 levelTimers, captureRequestRef, analysisQueued, requests,
                 isAiThinking, aimTarget, aiRecommendedColor, shots, drops, clears>>
  /\ \E pattern \in patterns : Mount(pattern, 1)

GameLoopEffect == GameLoopEffectFrom(GridPatterns)

\* the effect when every draw of initGrid passes the gap test
FullGridEffect == GameLoopEffectFrom(FullPatterns)

\* no effect re-run and no zero-delay timeout is pending: the next event is
\* taken from the frame source, the timers, the advisor or the user
Idle == ~effectDirty /\ analysisQueued = 0

\* whether the frame with these inputs is followed (the bounds of the run)
TickFollowed(s, r, nShots, nDrops, nClears) ==
  /\ r.event.launched => nShots < MaxShots
  /\ r.event.dropped => nDrops < MaxDrops
  /\ r.levelCleared => nClears < MaxClears

\* what a frame writes, r being the outcome of onResults; maxTimers bounds
\* the level-cleared timeouts that are pending at once
FrameOutcomeWith(r, maxTimers) ==
  /\ isPinching' = r.isPinching
  /\ isFlying' = r.isFlying
  /\ ballPos' = r.ballPos
  /\ ballVel' = r.ballVel
  /\ flightElapsed' = r.flightElapsed
  /\ dropElapsed' = r.dropElapsed
  /\ bubbles' = r.bubbles
  /\ score' = r.score
  /\ selectedColor' = r.selectedColor
  /\ availableColors' = r.availableColors
  /\ isGameOver' = r.isGameOver
  /\ effectDirty' = (r.isGameOver # isGameOver)
  /\ levelTimers' =
       IF r.levelCleared /\ Len(levelTimers) < maxTimers
       THEN Append(levelTimers, [level |-> currentLevel, stage |-> gameStage,
                                 unlocked |-> effUnlocked])
       ELSE levelTimers
  /\ captureRequestRef' = FALSE
  /\ analysisQueued' = IF r.queued THEN 1 ELSE 0
  /\ shots' = IF r.event.launched THEN shots + 1 ELSE shots
  /\ drops' = IF r.event.dropped THEN drops + 1 ELSE drops
  /\ clears' = IF r.levelCleared THEN clears + 1 ELSE clears
  /\ lastEvent' = r.event
  /\ UNCHANGED <<isMenuOpen, gameStage, unlockedStages, currentLevel, effUnlocked,
                 scanTimers, requests, isAiThinking, aimTarget, aiRecommendedColor>>

FrameOutcome(r) == FrameOutcomeWith(r, MaxLevelTimers)

\* one frame delivered to onResults, the container the size of the canvas
Tick ==
  /\ Idle
  /\ \E hand \in HandInputs, dt \in TickDeltas, rowColors \in RowPatterns :
       \E r \in {onResults(State, hand, dt, rowColors)} :
          /\ TickFollowed(State, r, shots, drops, clears)
          /\ FrameOutcome(r)
          /\ UNCHANGED <<canvas, anchorPos>>

\* one frame delivered to onResults after the container changed its size
ResizedFrameTo(containers) ==
  /\ Idle
  /\ \E container \in containers, hand \in HandInputs, dt \in TickDeltas,
        rowColors \in RowPatterns :
       /\ container # <<canvas.w, canvas.h>>
       /\ \E s \in {resizeStep(State, container)} :
            \E r \in {onResults(s, hand, dt, rowColors)} :
               /\ TickFollowed(s, r, shots, drops, clears)
               /\ FrameOutcome(r)
               /\ canvas' = s.canvas
               /\ anchorPos' = s.anchorPos

ResizedFrame == ResizedFrameTo(ResizedContainers)

\* the 1500 ms timeout set by the level-cleared branch fires
LevelTimerFires ==
  /\ Idle
  /\ levelTimers # <<>>
  /\ LET t == Head(levelTimers)
         stageDone == t.level + 1 > MAX_LEVELS_PER_STAGE
         nextLevel == IF stageDone THEN 1 ELSE t.level + 1
         unlock == IF stageDone /\ t.stage = "sea" /\ "island" \notin SeqToSet(t.unlocked)
                   THEN <<"island">>
                   ELSE IF stageDone /\ t.stage = "island"
                           /\ "volcano" \notin SeqToSet(t.unlocked)
                   THEN <<"volcano">>
                   ELSE <<>>
     IN /\ unlockedStages' = unlockedStages \o unlock
        /\ currentLevel' = nextLevel
        /\ levelTimers' = Tail(levelTimers)
        /\ Rerender(nextLevel # currentLevel)
  /\ lastEvent' = NoEvent
  /\ UNCHANGED <<canvas, ballVel, isPinching, isFlying, flightElapsed, score,
                 isGameOver, isMenuOpen, gameStage, effectDirty, captureRequestRef,
                 analysisQueued, requests, isAiThinking, aimTarget,
                 aiRecommendedColor, shots, drops, clears>>

\* clicks that re-mount the game loop are followed while no projectile is in
\* flight (a bound of the run: a flight carried over a re-mount restarts from
\* the anchor at every click, with a velocity that friction keeps changing)
ClickFollowed == ~isFlying

toggleMenu ==
  /\ Idle
  /\ ~isGameOver
  /\ ClickFollowed
  /\ isMenuOpen' = ~isMenuOpen
  /\ lastEvent' = NoEvent
  /\ UNCHANGED <<canvas, ballVel, isPinching, isFlying, flightElapsed, score,
                 isGameOver, gameStage, unlockedStages, currentLevel, levelTimers,
                 effectDirty, captureRequestRef, analysisQueued, requests,
                 isAiThinking, aimTarget, aiRecommendedColor, shots, drops, clears>>
  /\ Rerender(TRUE)

\* a click on a stage button of the dashboard
handleStageSelect ==
  /\ Idle
  /\ isMenuOpen
  /\ ClickFollowed
  /\ lastEvent' = NoEvent
  /\ UNCHANGED <<canvas, ballVel, isPinching, isFlying, flightElapsed, score,
                 isGameOver, isMenuOpen, unlockedStages, levelTimers, effectDirty,
                 captureRequestRef, analysisQueued, requests, isAiThinking, aimTarget,
                 aiRecommendedColor, shots, drops, clears>>
  /\ \E stage \in Stages :
       IF stage \notin SeqToSet(unlockedStages)
       THEN UNCHANGED <<gameStage, currentLevel, bubbles, availableColors,
                        selectedColor, dropElapsed, scanTimers,
                        anchorPos, ballPos, effUnlocked>>
       ELSE /\ gameStage' = stage
            /\ currentLevel' = 1
            /\ IF stage # gameStage \/ currentLevel # 1
               THEN Rerender(TRUE)
               ELSE /\ dropElapsed' = 0
                    /\ UNCHANGED <<bubbles, availableColors, selectedColor, scanTimers,
                                   anchorPos, ballPos, effUnlocked>>

\* a click on a color of the dock (the dock offers the available colors)
handleColorSelect ==
  /\ Idle
  /\ ~isMenuOpen /\ ~isGameOver
  /\ \E color \in SeqToSet(availableColors) :
       /\ color # selectedColor
       /\ selectedColor' = color
  /\ lastEvent' = NoEvent
  /\ UNCHANGED <<canvas, anchorPos, ballPos, ballVel, isPinching, isFlying,
                 flightElapsed, dropElapsed, bubbles, score, availableColors,
                 isGameOver, isMenuOpen, gameStage, unlockedStages, currentLevel,
                 effUnlocked, levelTimers, effectDirty, captureRequestRef, scanTimers,
                 analysisQueued, requests, isAiThinking, aimTarget,
                 aiRecommendedColor, shots, drops, clears>>

\* handleRestart and handleGoToDashboard (toDashboard) of the game-over
\* modal: initGrid, then the effect re-runs because isGameOver changed
handleRestart ==
  /\ Idle
  /\ isGameOver
  /\ ClickFollowed
  /\ isGameOver' = FALSE
  /\ lastEvent' = NoEvent
  /\ UNCHANGED <<canvas, ballVel, isPinching, isFlying, flightElapsed, score,
                 gameStage, unlockedStages, currentLevel, levelTimers, effectDirty,
                 captureRequestRef, analysisQueued, requests, isAiThinking, aimTarget,
                 aiRecommendedColor, shots, drops, clears>>
  /\ \E pattern \in GridPatterns, toDashboard \in BOOLEAN :
       /\ isMenuOpen' = (isMenuOpen \/ toDashboard)
       /\ Mount(pattern, 2)

(***************************************************************************)
(* The advisor boundary                                                    *)
(***************************************************************************)
\* the scan timeout and the advisor's responses are followed until the
\* second stage is unlocked (a bound of the run; from then on requests stay
\* outstanding)
AdvisorFollowed == "island" \notin SeqToSet(unlockedStages)

\* the 2000 ms timeout of initGrid: captureRequestRef.current = true
ScanTimerFires ==
  /\ Idle
  /\ AdvisorFollowed
  /\ scanTimers > 0
  /\ scanTimers' = scanTimers - 1
  /\ captureRequestRef' = TRUE
  /\ lastEvent' = NoEvent
  /\ UNCHANGED <<coreVars, analysisQueued, requests, isAiThinking, aimTarget,
                 aiRecommendedColor, shots, drops, clears>>

\* performAiAnalysis up to the call of getStrategicHint, which it makes
\* whatever the advisor is doing; the candidates it passes are kept in
\* lastEvent (the advisor's answer is not a function of them here)
performAiAnalysis ==
  /\ ~effectDirty
  /\ analysisQueued > 0
  /\ analysisQueued' = analysisQueued - 1
  /\ isAiThinking' = TRUE
  /\ requests' = IF Len(requests) < MaxRequests
                 THEN Append(requests, [canvasWidth |-> canvas.w, overtaken |-> FALSE])
                 ELSE requests
  /\ lastEvent' = [NoEvent EXCEPT
                     !.analysed = TRUE,
                     !.allClusters = getAllReachableClusters(bubbles, anchorPos, canvas.w)]
  /\ UNCHANGED <<coreVars, captureRequestRef, scanTimers, aimTarget,
                 aiRecommendedColor, shots, drops, clears>>

\* the promise of one outstanding getStrategicHint call resolves (in any
\* order); with marks, the calls issued before it that are still outstanding
\* are marked overtaken
StrategicHintFrom(marks) ==
  /\ Idle
  /\ AdvisorFollowed
  /\ \E i \in 1..Len(requests), hint \in Responses :
       LET pos == getBubblePos(hint.targetRow, hint.targetCol, requests[i].canvasWidth)
           recolor == hint.hasTarget /\ hint.recommendedColor # NoColor
       IN /\ requests' = [k \in 1..(i - 1) |-> [requests[k] EXCEPT !.overtaken = (@ \/ marks)]]
                          \o SubSeq(requests, i + 1, Len(requests))
          /\ aiRecommendedColor' = IF recolor THEN hint.recommendedColor
                                   ELSE aiRecommendedColor
          /\ selectedColor' = IF recolor THEN hint.recommendedColor ELSE selectedColor
          /\ aimTarget' = IF hint.hasTarget THEN [set |-> TRUE, x |-> pos.x, y |-> pos.y]
                          ELSE aimTarget
          /\ isAiThinking' = FALSE
  /\ lastEvent' = NoEvent
  /\ UNCHANGED <<canvas, anchorPos, ballPos, ballVel, isPinching, isFlying,
                 flightElapsed, dropElapsed, bubbles, score, availableColors,
                 isGameOver, isMenuOpen, gameStage, unlockedStages, currentLevel,
                 effUnlocked, levelTimers, effectDirty, captureRequestRef, scanTimers,
                 analysisQueued, shots, drops, clears>>

StrategicHintArrives == StrategicHintFrom(FALSE)

(***************************************************************************)
(* Properties                                                              *)
(***************************************************************************)
\* the line 150 px above the anchor
DangerY == anchorPos.y - DANGER_MARGIN

\* the bubbles a frame put in front of the list (the new row of a drop)
Prepended(pre, post, landed) ==
  Len(post) - Len(pre) - (IF landed THEN 1 ELSE 0)

\* whether bubble j of the list after a frame was active when the landing
\* resolution called checkMatches: new bubbles are, the others as before
ActiveBeforePop(pre, post, k, j) ==
  IF j <= k \/ j - k > Len(pre) THEN TRUE ELSE pre[j - k].active

RECURSIVE ClusterFrom(_, _, _)
\* the least set that holds S and every live bubble of the same color that
\* isNeighbor links to a member
ClusterFrom(post, live, S) ==
  LET T == S \cup {j \in live : \E i \in S : /\ post[j].color = post[i].color
                                             /\ isNeighbor(post[i], post[j])}
  IN IF T = S THEN S ELSE ClusterFrom(post, live, T)

\* the connected same-color set of the newly placed bubble (the last of the list)
ClusterOfPlaced(pre, post, k) ==
  ClusterFrom(post, {j \in 1..Len(post) : ActiveBeforePop(pre, post, k, j)},
              {Len(post)})

\* the bubbles the frame deactivated
Deactivated(pre, post, k) ==
  {j \in 1..Len(post) : ActiveBeforePop(pre, post, k, j) /\ ~post[j].active}

\* C2: when a landing finds a connected same-color set of at least 3 around
\* the newly placed bubble, the bubbles it deactivates are exactly that
\* maximal set: every member goes inactive and no other bubble does.
PopsWholeCluster ==
  [][lastEvent'.landed =>
       LET k == Prepended(bubbles, bubbles', TRUE)
           cluster == ClusterOfPlaced(bubbles, bubbles', k)
       IN Cardinality(cluster) >= 3 => Deactivated(bubbles, bubbles', k) = cluster]_vars

\* a pop that took a member two hops away from the placed bubble
PopsWholeClusterWitness ==
  /\ lastEvent.landed
  /\ Cardinality(lastEvent.popped) >= 3
  /\ \E j \in lastEvent.popped :
       /\ j # lastEvent.landedAt
       /\ ~isNeighbor(bubbles[lastEvent.landedAt], bubbles[j])
       /\ ~bubbles[j].active

\* C3: a landing deactivates a bubble only if the connected same-color set
\* of the newly placed bubble has at least 3 members.
NeverPopsBelowThree ==
  [][lastEvent'.landed =>
       LET k == Prepended(bubbles, bubbles', TRUE)
       IN Deactivated(bubbles, bubbles', k) # {}
            => Cardinality(ClusterOfPlaced(bubbles, bubbles', k)) >= 3]_vars

\* a landing that made a set of exactly 2 and left both bubbles active
NeverPopsBelowThreeWitness ==
  /\ lastEvent.landed
  /\ lastEvent.popped = {}
  /\ bubbles[lastEvent.landedAt].active
  /\ Cardinality({j \in 1..Len(bubbles) :
                    /\ bubbles[j].active
                    /\ bubbles[j].color = bubbles[lastEvent.landedAt].color
                    /\ isNeighbor(bubbles[lastEvent.landedAt], bubbles[j])}) = 1

\* C4: a landing that pops n bubbles of a color worth p points adds exactly
\* n * p * 1.5 to the score when n > 3 and exactly n * p when n = 3; a
\* landing that pops nothing adds nothing.
ScoreStepFunction ==
  [][lastEvent'.landed =>
       LET k == Prepended(bubbles, bubbles', TRUE)
           n == Cardinality(Deactivated(bubbles, bubbles', k))
           p == COLOR_CONFIG[bubbles'[Len(bubbles')].color]
       IN score' - score = IF n > 3 THEN (n * p * 3) \div 2 ELSE n * p]_vars

\* four bubbles worth 100 points each popped for 600
ScoreStepFunctionWitness ==
  /\ lastEvent.landed
  /\ Cardinality(lastEvent.popped) = 4
  /\ bubbles[lastEvent.landedAt].color = "red"
  /\ lastEvent.gained = 600

\* C5: game over is signalled only if some active bubble lies below the line
\* 150 px above the anchor.
GameOverOnlyForActive ==
  lastEvent.gameOverSignalled =>
    \E i \in 1..Len(bubbles) : bubbles[i].active /\ bubbles[i].y > DangerY

\* C6: whenever an active bubble lies below the line 150 px above the
\* anchor, game over has been signalled.
GameOverNeverOmitted ==
  (\E i \in 1..Len(bubbles) : bubbles[i].active /\ bubbles[i].y > DangerY)
    => isGameOver

\* C7: a ceiling advance moves every bubble one row down, its column, color
\* and active flag unchanged, and puts 12 active bubbles in row 0, one in
\* each of the columns 0 .. 11.
DropShiftsAndAddsRow ==
  [][lastEvent'.dropped /\ ~lastEvent'.landed =>
       LET k == Prepended(bubbles, bubbles', FALSE)
           rowZero == {j \in 1..Len(bubbles') : bubbles'[j].row = 0}
       IN /\ \A i \in 1..Len(bubbles) :
               /\ bubbles'[i + k].row = bubbles[i].row + 1
               /\ bubbles'[i + k].col = bubbles[i].col
               /\ bubbles'[i + k].color = bubbles[i].color
               /\ bubbles'[i + k].active = bubbles[i].active
          /\ Cardinality(rowZero) = 12
          /\ \A j \in rowZero : bubbles'[j].active
          /\ {bubbles'[j].col : j \in rowZero} = 0..11]_vars

\* a ceiling advance over a field that held an inactive bubble
DropShiftsAndAddsRowWitness ==
  /\ lastEvent.dropped
  /\ ~lastEvent.landed
  /\ \E j \in 1..Len(bubbles) : bubbles[j].row > 0 /\ ~bubbles[j].active
  /\ \E j \in 1..Len(bubbles) : bubbles[j].row > 0 /\ bubbles[j].active

\* C8: the projectile is never being aimed and flying at once.
NeverAimedAndFlying == ~(isPinching /\ isFlying)

\* the frame of a release: the projectile was being aimed and now flies
NeverAimedAndFlyingWitness == lastEvent.launched /\ isFlying /\ ~isPinching

\* C9: at most one advisor request is outstanding.
AtMostOneRequest == Len(requests) <= 1

\* the frame handler's view of the state with nothing of the advisor in it
Quiet(s) ==
  [s EXCEPT !.captureRequestRef = FALSE, !.isAiThinking = FALSE,
            !.aimTarget = NoTarget, !.aiRecommendedColor = NoColor]

\* what a frame leaves of the core (the request for a capture left out)
CoreOutcome(r) == [r EXCEPT !.queued = FALSE]

\* C10: with a request pending, the frame handler still takes a frame, and
\* every frame (aiming, launch, flight, landing, matching,
\* ceiling advance) leaves the same core state as with no request pending.
PendingRequestNeverBlocks ==
  [](requests # <<>> =>
       /\ \E hand \in HandInputs, dt \in TickDeltas, rowColors \in RowPatterns :
            TickFollowed(State, onResults(State, hand, dt, rowColors),
                         shots, drops, clears)
       /\ \A hand \in HandInputs, dt \in TickDeltas, rowColors \in RowPatterns :
            CoreOutcome(onResults(State, hand, dt, rowColors))
              = CoreOutcome(onResults(Quiet(State), hand, dt, rowColors)))

\* a landing that popped a cluster while a request was pending
PendingRequestNeverBlocksWitness ==
  /\ requests # <<>>
  /\ isAiThinking
  /\ lastEvent.landed
  /\ lastEvent.popped # {}


\* C13: a release from aiming starts the flight if and only if the draw
\* distance from the anchor is strictly greater than 30 px; at 30 px or less
\* the projectile is back at the anchor, not flying, and no bubble is placed.
ReleaseFiresBeyondThirty ==
  [][(isPinching /\ ~isPinching') =>
       LET drawSq == DistSq(ballPos.x, ballPos.y, anchorPos.x, anchorPos.y)
       IN /\ lastEvent'.launched <=> drawSq > MIN_STRETCH * MIN_STRETCH
          /\ lastEvent'.launched => (isFlying' \/ lastEvent'.landed \/ lastEvent'.offScreen)
          /\ drawSq <= MIN_STRETCH * MIN_STRETCH =>
               /\ ballPos' = anchorPos'
               /\ ~isFlying'
               /\ ~lastEvent'.landed
               /\ Len(bubbles') = Len(bubbles)
                                  + (IF lastEvent'.dropped THEN GRID_COLS ELSE 0)]_vars

\* a release at a draw distance of exactly 30 px, cancelled
ReleaseFiresBeyondThirtyWitness ==
  /\ lastEvent.released
  /\ lastEvent.stretchSq = MIN_STRETCH * MIN_STRETCH
  /\ ~lastEvent.launched
  /\ ~isFlying
  /\ ballPos = anchorPos

\* the projectile as a frame leaves it
ProjectileAfter(r) ==
  [isPinching |-> r.isPinching, isFlying |-> r.isFlying,
   ballPos |-> r.ballPos, ballVel |-> r.ballVel]

\* C15: in every projectile state (resting, aiming, flying) a frame with no
\* hand detected leaves the projectile as a frame does that has a hand in it
\* with the trigger disengaged (pinch distance >= PINCH_THRESHOLD).
NoHandIsDisengaged ==
  [](\A dt \in TickDeltas, rowColors \in RowPatterns :
       LET noHand == ProjectileAfter(onResults(State, NoHand, dt, rowColors))
       IN \A hand \in OpenHands :
            ProjectileAfter(onResults(State, hand, dt, rowColors)) = noHand)

\* the projectile is being aimed beyond 30 px and a frame with no hand fires it
NoHandIsDisengagedWitness ==
  /\ isPinching
  /\ ~isMenuOpen /\ ~isGameOver
  /\ DistSq(ballPos.x, ballPos.y, anchorPos.x, anchorPos.y) > MIN_STRETCH * MIN_STRETCH
  /\ \A dt \in TickDeltas, rowColors \in RowPatterns :
       onResults(State, NoHand, dt, rowColors).event.launched

\* C18: a landing whose newly placed bubble has a connected same-color set
\* of fewer than 3 members changes nothing through checkMatches: the score
\* stays, the placed bubble is active, and every other bubble keeps its
\* active flag, its column and color, and its row (one more if the ceiling
\* advanced in the same frame).
ShortSetChangesNothing ==
  [][lastEvent'.landed =>
       LET k == Prepended(bubbles, bubbles', TRUE)
           shift == IF lastEvent'.dropped THEN 1 ELSE 0
       IN Cardinality(ClusterOfPlaced(bubbles, bubbles', k)) < 3 =>
            /\ score' = score
            /\ lastEvent'.gained = 0
            /\ lastEvent'.popped = {}
            /\ bubbles'[Len(bubbles')].active
            /\ \A i \in 1..Len(bubbles) :
                 /\ bubbles'[i + k].active = bubbles[i].active
                 /\ bubbles'[i + k].row = bubbles[i].row + shift
                 /\ bubbles'[i + k].col = bubbles[i].col
                 /\ bubbles'[i + k].color = bubbles[i].color]_vars

\* a landing that scored nothing and left a field of at least four bubbles,
\* the placed one among them, all active
ShortSetChangesNothingWitness ==
  /\ lastEvent.landed
  /\ lastEvent.gained = 0
  /\ Len(bubbles) >= 4
  /\ \A i \in 1..Len(bubbles) : bubbles[i].active

\* C19: after every landing, with or without a pop, the projectile is not
\* flying, lies at the anchor and has velocity (0, 0).
LandingRestsAtAnchor ==
  lastEvent.landed =>
    /\ ~isFlying
    /\ ballPos = anchorPos
    /\ ballVel = Point(0, 0)

\* a landing without a pop, in the frame after which the projectile rests
LandingRestsAtAnchorWitness ==
  /\ lastEvent.landed
  /\ lastEvent.popped = {}
  /\ ~isFlying
  /\ ~isPinching
  /\ ballPos = anchorPos
  /\ ballVel = Point(0, 0)

\* C20: in stage 'sea' the ceiling never advances: no frame has advanced it,
\* and no frame, whatever the time since the previous one, calls dropCeiling
\* or changes the row of a bubble.
SeaNeverDrops ==
  [](gameStage = "sea" =>
       /\ ~lastEvent.dropped
       /\ \A hand \in HandInputs, dt \in LongDeltas, rowColors \in RowPatterns :
            LET r == onResults(State, hand, dt, rowColors)
            IN /\ ~r.event.dropped
               /\ \A i \in 1..Len(bubbles) : r.bubbles[i].row = bubbles[i].row)

\* the first stage in play (menu closed, no game over, a grid on the field)
\* in the frame that abandoned a flight after a stall of 20 s
SeaNeverDropsWitness ==
  /\ gameStage = "sea"
  /\ ~isMenuOpen /\ ~isGameOver
  /\ bubbles # <<>>
  /\ lastEvent.timedOut
  /\ ~lastEvent.dropped
  /\ \A i \in 1..Len(bubbles) : bubbles[i].row < baseRows

\* C22: every active bubble lies in a valid cell of the offset layout: its col
\* is in 0..11 when its row is even and in 0..10 when its row is odd, also
\* after ceiling advances.
ActiveInValidCells ==
  \A i \in 1..Len(bubbles) :
     bubbles[i].active =>
       /\ bubbles[i].row >= 0
       /\ bubbles[i].col \in 0..(ColsInRow(bubbles[i].row) - 1)

\* C24: the published available colors are exactly the colors carried by
\* active bubbles, after every grid initialisation, landing and ceiling
\* advance (and in every state between them).
PublishedColorsExact ==
  SeqToSet(availableColors) = {bubbles[i].color : i \in {k \in 1..Len(bubbles) : bubbles[k].active}}

\* a landing popped the last bubbles of a color and other colors remain
PublishedColorsExactWitness ==
  /\ lastEvent.landed
  /\ availableColors # <<>>
  /\ \E i \in lastEvent.popped : bubbles[i].color \notin SeqToSet(availableColors)

\* the cells of the landing scan window (as positions in ScanCells) that held
\* no active bubble when the landing scan ran: post is the list after the
\* frame, n its new bubble, k the number of bubbles the frame prepended
EmptyAtLanding(pre, post, k, n) ==
  {m \in 1..Len(ScanCells) :
     \A j \in 1..Len(post) :
        (j # n /\ ActiveBeforePop(pre, post, k, j))
          => <<post[j].row, post[j].col>> # ScanCells[m]}

\* the squared distance from pos to the center of the m-th cell of the window
CellDistSq(pos, m, width) ==
  DistSq(pos.x, pos.y,
         getBubblePos(ScanCells[m][1], ScanCells[m][2], width).x,
         getBubblePos(ScanCells[m][1], ScanCells[m][2], width).y)

\* C27: on collision the new bubble is placed in a cell of rows 0..12 that
\* holds no active bubble and whose center is nearest to the projectile's
\* position among all such cells, the first in row-major order on a tie; it
\* has that cell's position and the color selected at that moment.
PlacedInNearestEmptyCell ==
  [][lastEvent'.landed =>
       LET n     == lastEvent'.landedAt
           k     == Prepended(bubbles, bubbles', TRUE)
           empty == EmptyAtLanding(bubbles, bubbles', k, n)
           pos   == lastEvent'.hitPos
       IN \E m \in empty :
            /\ <<bubbles'[n].row, bubbles'[n].col>> = ScanCells[m]
            /\ Point(bubbles'[n].x, bubbles'[n].y)
                 = getBubblePos(ScanCells[m][1], ScanCells[m][2], canvas.w)
            /\ \A j \in empty :
                 /\ CellDistSq(pos, m, canvas.w) <= CellDistSq(pos, j, canvas.w)
                 /\ CellDistSq(pos, j, canvas.w) = CellDistSq(pos, m, canvas.w) => m <= j
            /\ bubbles'[n].color = selectedColor]_vars

\* the active bubbles
ActiveSet(bs) == {i \in 1..Len(bs) : bs[i].active}

\* C28: the clusters explored by getAllReachableClusters partition the active
\* bubbles of each color into maximal isNeighbor-connected components: every
\* active bubble is a member of exactly one explored cluster, a cluster is the
\* whole connected same-color set of each of its members, it yields at most
\* one candidate, and the candidate's size is the number of its bubbles
\* (stated of the field the analysis has just run on).
ClustersPartitionField ==
  lastEvent.analysed =>
  LET clusters == exploredClusters(bubbles, anchorPos, canvas.w)
      membersOf(k) == SeqToSet(clusters[k].members)
  IN /\ \A i \in ActiveSet(bubbles) :
          Cardinality({k \in 1..Len(clusters) :
                         \E p \in 1..Len(clusters[k].members) :
                            clusters[k].members[p] = i}) = 1
     /\ \A k \in 1..Len(clusters) :
          /\ Len(clusters[k].members) = Cardinality(membersOf(k))
          /\ \A i \in membersOf(k) :
               /\ bubbles[i].active
               /\ bubbles[i].color = clusters[k].color
               /\ membersOf(k) = ClusterFrom(bubbles, ActiveSet(bubbles), {i})
          /\ Len(clusters[k].candidate) <= 1
          /\ \A c \in 1..Len(clusters[k].candidate) :
               /\ clusters[k].candidate[c].size = Cardinality(membersOf(k))
               /\ clusters[k].candidate[c].color = clusters[k].color
     /\ lastEvent.allClusters = candidatesOf(clusters, 1)

\* the analysis ran on a field with two clusters of one color, one of them of
\* several bubbles, and a cluster of another color
ClustersPartitionFieldWitness ==
  /\ lastEvent.analysed
  /\ LET clusters == exploredClusters(bubbles, anchorPos, canvas.w)
     IN \E j, k, m \in 1..Len(clusters) :
          /\ j # k
          /\ clusters[j].color = clusters[k].color
          /\ Len(clusters[j].members) > 1
          /\ clusters[m].color # clusters[j].color


\* C34: while the menu is open or the game is over, no step starts aiming
\* (isPinching false to true) and no step launches a shot (isFlying false to
\* true).
BlockedInputDoesNothing ==
  [][(isMenuOpen \/ isGameOver) =>
       /\ ~(~isPinching /\ isPinching')
       /\ ~(~isFlying /\ isFlying')]_vars

\* the menu is open over a resting projectile, and a frame shows a pinching
\* hand that would start aiming were the menu closed: it does not
BlockedInputDoesNothingWitness ==
  /\ isMenuOpen
  /\ ~isGameOver
  /\ ~isPinching
  /\ ~isFlying
  /\ \E hand \in HandInputs :
       /\ inputStep([State EXCEPT !.isMenuOpen = FALSE], hand).isPinching
       /\ ~inputStep(State, hand).isPinching
       /\ ~inputStep(State, hand).isFlying


\* the field as the player sees it: row, col, color and active flag of every
\* bubble
FieldOf(bs) ==
  [i \in 1..Len(bs) |-> <<bs[i].row, bs[i].col, bs[i].color, bs[i].active>>]

\* C37: opening or closing the menu leaves the field unchanged: the same
\* bubbles with the same row, col, color and active flag exist before the
\* toggle and after it and the re-run of the game-loop effect that follows.
MenuKeepsField ==
  [][(isMenuOpen' # isMenuOpen /\ ~isGameOver /\ ~isGameOver')
       => FieldOf(bubbles') = FieldOf(bubbles)]_vars


\* C38: the advisor-busy flag is true exactly while at least one advisor
\* request is outstanding, also when two requests overlap.
BusyWhileOutstanding == isAiThinking <=> (requests # <<>>)


\* the outstanding requests that a response to a later request has overtaken
Overtaken(rs) == {k \in 1..Len(rs) : rs[k].overtaken}

\* C39: when advisor requests overlap, a response to an older request that
\* arrives after the response to a newer one overwrites nothing: the
\* recommended color, the selected color and the aim target stay those the
\* newer response left.
OlderResponseKeepsNewer ==
  [][(/\ Len(requests') < Len(requests)
      /\ Cardinality(Overtaken(requests')) < Cardinality(Overtaken(requests)))
       => /\ aimTarget' = aimTarget
          /\ aiRecommendedColor' = aiRecommendedColor
          /\ selectedColor' = selectedColor]_vars

(***************************************************************************)
(* Specification                                                           *)
(***************************************************************************)
Next ==
  \/ GameLoopEffect
  \/ Tick
  \/ LevelTimerFires
  \/ toggleMenu
  \/ handleStageSelect
  \/ handleColorSelect
  \/ handleRestart
  \/ ScanTimerFires
  \/ performAiAnalysis
  \/ StrategicHintArrives

Spec == Init /\ [][Next]_vars

(***************************************************************************)
(* The second stage on a tall container, once the ceiling has advanced as  *)
(* many rows as the landing scan covers                                    *)
(***************************************************************************)
\* a container 1100 px high: the danger line lies below row 18
TallContainer == <<6000, 11000>>

RECURSIVE dropCeilingTimes(_, _, _, _)
\* the field after n ceiling advances
dropCeilingTimes(bs, n, rowColors, width) ==
  IF n = 0 THEN bs
  ELSE dropCeilingTimes(dropCeilingBubbles(bs, rowColors, width), n - 1, rowColors, width)

\* the state gridRows + 5 ceiling advances after the second stage was
\* entered, no shot fired: the rows 0 .. gridRows + 4 are the advanced rows
InitFullWindow ==
  /\ canvas = [w |-> TallContainer[1], h |-> TallContainer[2]]
  /\ anchorPos = Point(canvas.w \div 2, canvas.h - SLINGSHOT_BOTTOM_OFFSET)
  /\ ballPos = anchorPos
  /\ ballVel = Point(0, 0)
  /\ isPinching = FALSE
  /\ isFlying = FALSE
  /\ flightElapsed = 0
  /\ dropElapsed = 0
  /\ \E pattern \in GridPatterns, rowColors \in RowPatterns :
       bubbles = dropCeilingTimes(initGridBubbles(pattern, canvas.w), gridRows + 5,
                                  rowColors, canvas.w)
  /\ ~dropCeilingGameOver(bubbles, anchorPos.y)
  /\ score = 3000
  /\ selectedColor = "red"
  /\ availableColors = updateAvailableColors(bubbles, selectedColor).colors
  /\ isGameOver = FALSE
  /\ isMenuOpen = FALSE
  /\ gameStage = "island"
  /\ unlockedStages = <<"sea", "island">>
  /\ effUnlocked = unlockedStages
  /\ currentLevel = 1
  /\ levelTimers = <<>>
  /\ effectDirty = FALSE
  /\ captureRequestRef = FALSE
  /\ scanTimers = 0
  /\ analysisQueued = 0
  /\ requests = <<>>
  /\ isAiThinking = FALSE
  /\ aimTarget = NoTarget
  /\ aiRecommendedColor = NoColor
  /\ shots = 0
  /\ drops = 0
  /\ clears = 0
  /\ lastEvent = NoEvent

\* frames and the analysis they queue; the shot keeps the selected color
NextFullWindow ==
  \/ Tick
  \/ performAiAnalysis

SpecFullWindow == InitFullWindow /\ [][NextFullWindow]_vars

\* C1: no two active bubbles share a cell (row, col).
UniqueCells ==
  \A i, j \in 1..Len(bubbles) :
     (i # j /\ bubbles[i].active /\ bubbles[j].active)
       => <<bubbles[i].row, bubbles[i].col>> # <<bubbles[j].row, bubbles[j].col>>

\* every cell of the landing scan window holds an active bubble
WindowFull(bs) == SeqToSet(ScanCells) \subseteq OccupiedCells(bs)

\* the active bubbles of a cell
ActiveAt(bs, cell) ==
  {i \in 1..Len(bs) : bs[i].active /\ <<bs[i].row, bs[i].col>> = cell}

\* C11: a collision that finds every cell of the landing scan window (rows
\* 0 .. 12) held by an active bubble drops the shot: the frame adds no bubble
\* and no cell gets a second active bubble.
FullWindowDropsShot ==
  [][(lastEvent'.landed /\ ~lastEvent'.dropped /\ WindowFull(bubbles)) =>
       /\ Len(bubbles') = Len(bubbles)
       /\ \A cell \in SeqToSet(ScanCells) :
            Cardinality(ActiveAt(bubbles', cell)) <= 1]_vars

\* C14: isNeighbor(a, b) = isNeighbor(b, a) for every two bubbles of the
\* field, whatever their rows and columns.
NeighborSymmetric ==
  \A i, j \in 1..Len(bubbles) :
     isNeighbor(bubbles[i], bubbles[j]) = isNeighbor(bubbles[j], bubbles[i])

\* after a landing ran the flood fill over a field that fills the rows
\* 0 .. 12: an odd-row bubble and an even-row bubble, neighbors both ways
NeighborSymmetricWitness ==
  /\ lastEvent.landed
  /\ WindowFull(bubbles)
  /\ \E i, j \in 1..Len(bubbles) :
       /\ bubbles[i].row % 2 = 1
       /\ bubbles[j].row = bubbles[i].row + 1
       /\ bubbles[j].col = bubbles[i].col + 1
       /\ isNeighbor(bubbles[i], bubbles[j])
       /\ isNeighbor(bubbles[j], bubbles[i])


(***************************************************************************)
(* The game with a window that is resized between frames                   *)
(***************************************************************************)
\* frames, resized or not, and the analysis they queue; no clicks, no timers
NextResize ==
  \/ GameLoopEffect
  \/ Tick
  \/ ResizedFrame
  \/ performAiAnalysis

SpecResize == Init /\ [][NextResize]_vars

\* C12: the stored pixel position (x, y) of every bubble equals
\* getBubblePos(row, col, canvas.width), also after the canvas width changed
\* on a resize and after a ceiling advance.
PositionsFollowWidth ==
  \A i \in 1..Len(bubbles) :
     Point(bubbles[i].x, bubbles[i].y)
       = getBubblePos(bubbles[i].row, bubbles[i].col, canvas.w)

(***************************************************************************)
(* The first stage with frames and the color dock only                     *)
(***************************************************************************)
\* the effect, frames, the analysis they queue, and the color dock
NextDock ==
  \/ GameLoopEffect
  \/ Tick
  \/ handleColorSelect
  \/ performAiAnalysis

SpecDock == Init /\ [][NextDock]_vars

\* C17: for every cell of the landing scan window that holds no active
\* bubble, the nearest-empty-cell lookup at exactly getBubblePos(r, c, width)
\* gives the cell (r, c) back.
RoundTripSnaps ==
  \A k \in 1..Len(ScanCells) :
     ActiveAt(bubbles, ScanCells[k]) = {} =>
       LET pos  == getBubblePos(ScanCells[k][1], ScanCells[k][2], canvas.w)
           best == nearestEmptyCell(bubbles, pos, canvas.w)
       IN <<best.row, best.col>> = ScanCells[k] /\ Point(best.x, best.y) = pos

\* after a landing popped a cluster: cells of the scan window are held by
\* popped bubbles only, and the lookup has snapped the shot to the center of
\* a cell
RoundTripSnapsWitness ==
  /\ lastEvent.landed
  /\ lastEvent.popped # {}
  /\ \E i \in lastEvent.popped :
       ActiveAt(bubbles, <<bubbles[i].row, bubbles[i].col>>) = {}
  /\ Point(bubbles[lastEvent.landedAt].x, bubbles[lastEvent.landedAt].y)
       = getBubblePos(bubbles[lastEvent.landedAt].row, bubbles[lastEvent.landedAt].col,
                      canvas.w)

\* the bubbles other than target that are active and have their center
\* within 1.8 * BUBBLE_RADIUS of a sample point checked on the way to target
PathBlockers(bs, anchor, target) ==
  LET samples == pathSamples(anchor, bs[target].x, bs[target].y)
  IN {j \in 1..Len(bs) :
        /\ j # target
        /\ bs[j].active
        /\ \E i \in 1..Len(samples) :
             DistSq(samples[i].x, samples[i].y, bs[j].x, bs[j].y)
               < COLLIDE_DIST * COLLIDE_DIST}

\* C21: isPathClear(target) is false whenever another active bubble, of any
\* color, has its center within 1.8 * BUBBLE_RADIUS of a checked sample point
\* of the line from the anchor to the target, and true otherwise: the target
\* itself and inactive bubbles do not block.
BlockedPathIsNotClear ==
  \A target \in 1..Len(bubbles) :
     isPathClear(bubbles, anchorPos, target) <=> PathBlockers(bubbles, anchorPos, target) = {}

\* the analysis ran on a field where a target is blocked by an active bubble
\* of another color only, and another target is clear although its own center
\* is within reach of a checked sample point
BlockedPathIsNotClearWitness ==
  /\ lastEvent.analysed
  /\ \E target \in 1..Len(bubbles) :
       /\ bubbles[target].active
       /\ PathBlockers(bubbles, anchorPos, target) # {}
       /\ \A j \in PathBlockers(bubbles, anchorPos, target) :
            bubbles[j].color # bubbles[target].color
       /\ ~isPathClear(bubbles, anchorPos, target)
  /\ \E target \in 1..Len(bubbles) :
       /\ bubbles[target].active
       /\ isPathClear(bubbles, anchorPos, target)
       /\ \E i \in 1..Len(pathSamples(anchorPos, bubbles[target].x, bubbles[target].y)) :
            DistSq(pathSamples(anchorPos, bubbles[target].x, bubbles[target].y)[i].x,
                   pathSamples(anchorPos, bubbles[target].x, bubbles[target].y)[i].y,
                   bubbles[target].x, bubbles[target].y) < COLLIDE_DIST * COLLIDE_DIST

(***************************************************************************)
(* The first stage with shots drawn to several lengths                     *)
(***************************************************************************)
\* hands that draw the projectile 90 px straight back, 130 px back and to
\* the side, or past the maximal drag distance, and no hand
AimHands ==
  {NoHand,
   [present |-> TRUE, dx |-> 0, dy |-> 900, pinchDist |-> 3],
   [present |-> TRUE, dx |-> 500, dy |-> 1200, pinchDist |-> 3],
   [present |-> TRUE, dx |-> 0, dy |-> 2600, pinchDist |-> 3]}

\* one frame delivered to onResults, the hand drawn from AimHands
AimedFrame ==
  /\ Idle
  /\ \E hand \in AimHands, dt \in TickDeltas, rowColors \in RowPatterns :
       \E r \in {onResults(State, hand, dt, rowColors)} :
          /\ TickFollowed(State, r, shots, drops, clears)
          /\ FrameOutcome(r)
          /\ UNCHANGED <<canvas, anchorPos>>

\* the effect, frames, and the analysis they queue
NextAim ==
  \/ GameLoopEffect
  \/ AimedFrame
  \/ performAiAnalysis

SpecAim == Init /\ [][NextAim]_vars

\* the square of the power ratio min(stretch / MAX_DRAG_DIST, 1), as the pair
\* numerator, denominator (squares of lengths in px)
PowerRatioSq(stretchSq) ==
  [num |-> Min(stretchSq \div 100, (MAX_DRAG_DIST * MAX_DRAG_DIST) \div 100),
   den |-> (MAX_DRAG_DIST * MAX_DRAG_DIST) \div 100]

\* C23: at launch the velocity is (anchor - draw position) * m, where m is
\* MIN_FORCE_MULT + (MAX_FORCE_MULT - MIN_FORCE_MULT) * ratio^2 with
\* ratio = min(stretch / MAX_DRAG_DIST, 1) (m in 1/10000, rounded down), and
\* m lies between the minimal and the maximal multiplier.
LaunchVelocityQuadratic ==
  [][lastEvent'.launched =>
       LET dx == anchorPos.x - ballPos.x
           dy == anchorPos.y - ballPos.y
           q  == PowerRatioSq(dx * dx + dy * dy)
       IN \E m \in (MIN_FORCE_MULT * 100)..(MAX_FORCE_MULT * 100) :
            /\ (m - MIN_FORCE_MULT * 100) * q.den
                 <= (MAX_FORCE_MULT - MIN_FORCE_MULT) * 100 * q.num
            /\ (MAX_FORCE_MULT - MIN_FORCE_MULT) * 100 * q.num
                 < (m + 1 - MIN_FORCE_MULT * 100) * q.den
            /\ lastEvent'.launchVel = Point(MulDiv(dx, m, 10000), MulDiv(dy, m, 10000))]_vars

\* a shot was launched from a draw shorter than the maximal drag distance,
\* and not straight back
LaunchVelocityQuadraticWitness ==
  /\ lastEvent.launched
  /\ lastEvent.stretchSq > MIN_STRETCH * MIN_STRETCH
  /\ lastEvent.stretchSq < MAX_DRAG_DIST * MAX_DRAG_DIST
  /\ lastEvent.launchVel.x # 0
  /\ lastEvent.launchVel.y # 0

(***************************************************************************)
(* The first stage with flights of every kind, frames keep arriving        *)
(***************************************************************************)
\* the hands of AimHands and one that draws the projectile 90 px upwards, so
\* that the shot leaves through the bottom of the field
FlightHands ==
  AimHands \cup {[present |-> TRUE, dx |-> 0, dy |-> -900, pinchDist |-> 3]}

\* frame intervals: none, 3 s, 20 s
FlightDeltas == {0, 3000, 20000}

\* one frame delivered to onResults, dt taken from deltas; the stages of
\* onResults (input, drop timer, physics, the rest) are taken one by one
TimedFrameOf(deltas) ==
  /\ Idle
  /\ \E hand \in FlightHands, dt \in deltas, rowColors \in RowPatterns :
       \E s \in {State} :
         \E inp \in {inputStep(s, hand)}, drp \in {dropStep(s, dt, rowColors)} :
           \E fl \in {flightStep(s, dt, inp, drp.bubbles)} :
             \E r \in {afterFlight(s, inp, drp, fl)} :
                /\ TickFollowed(s, r, shots, drops, clears)
                /\ FrameOutcome(r)
                /\ UNCHANGED <<canvas, anchorPos>>

TimedFrame == TimedFrameOf(FlightDeltas)

\* a frame that arrives, after the clock advanced, while a shot is in flight
ClockFrame ==
  /\ isFlying
  /\ \/ TimedFrameOf({20000})
     \/ TimedFrameOf(FlightDeltas \ {0, 20000})

\* the effect, frames, and the analysis they queue
NextFlight ==
  \/ GameLoopEffect
  \/ TimedFrame
  \/ performAiAnalysis

\* the camera keeps delivering frames and the clock advances between them
SpecFlight == Init /\ [][NextFlight]_vars /\ WF_vars(ClockFrame)

\* C25: every flight ends, provided frames keep arriving while the clock
\* advances: a flying projectile eventually is not flying, and a frame that
\* arrives more than FLIGHT_TIMEOUT ms after the launch leaves it not flying.
FlightEnds ==
  /\ isFlying ~> ~isFlying
  /\ [](isFlying =>
          \A hand \in FlightHands, dt \in FlightDeltas, rowColors \in RowPatterns :
             flightElapsed + dt > FLIGHT_TIMEOUT
               => ~onResults(State, hand, dt, rowColors).isFlying)

\* a flight that was under way for 3 s ended by the timeout
FlightEndsWitness ==
  /\ lastEvent.timedOut
  /\ ~isFlying
  /\ ~lastEvent.landed

\* C26: a flight that ends by the timeout or by leaving the bottom of the
\* field places no bubble: bubbles, score and available colors are unchanged,
\* no scan is requested by it, and the projectile is at the anchor with zero
\* velocity, not flying.
LostShotChangesNothing ==
  [][(lastEvent'.timedOut \/ lastEvent'.offScreen) =>
       /\ ~lastEvent'.landed
       /\ bubbles' = bubbles
       /\ score' = score
       /\ availableColors' = availableColors
       /\ selectedColor' = selectedColor
       /\ analysisQueued' = (IF captureRequestRef THEN 1 ELSE 0)
       /\ ~isFlying'
       /\ ballPos' = anchorPos
       /\ ballVel' = Point(0, 0)]_vars

\* a shot left the field through the bottom while bubbles are on the field
LostShotChangesNothingWitness ==
  /\ lastEvent.offScreen
  /\ ~isFlying
  /\ \E i \in 1..Len(bubbles) : bubbles[i].active

(***************************************************************************)
(* The first stage with clusters in the shadow of other bubbles            *)
(***************************************************************************)
\* grids at the left and at the right edge: a red pair in rows 1 and 2, a
\* blue bubble below it in row 3, a yellow bubble above it in row 0
PatternShadowLeft ==
  [cell \in InitCellSet |->
     IF cell \in {<<1, 0>>, <<2, 0>>} THEN "red"
     ELSE IF cell = <<3, 0>> THEN "blue"
     ELSE IF cell = <<0, 0>> THEN "yellow" ELSE "gap"]
PatternShadowRight ==
  [cell \in InitCellSet |->
     IF cell \in {<<1, 10>>, <<2, 11>>} THEN "red"
     ELSE IF cell = <<3, 10>> THEN "blue"
     ELSE IF cell = <<0, 11>> THEN "yellow" ELSE "gap"]
ShadowPatterns == {PatternShadowLeft, PatternShadowRight}

\* the effect when initGrid draws one of these grids
ShadowGridEffect == GameLoopEffectFrom(ShadowPatterns)

\* the effect, frames, the scan timer and the analysis
NextShadow ==
  \/ ShadowGridEffect
  \/ Tick
  \/ ScanTimerFires
  \/ performAiAnalysis

SpecShadow == Init /\ [][NextShadow]_vars

\* the members of a cluster that have a clear path
ClearMembers(bs, anchor, members) ==
  {i \in SeqToSet(members) : isPathClear(bs, anchor, i)}

\* C29: the representative of a cluster's candidate is the member of greatest
\* pixel y among the members with a clear path, and the candidate gives its
\* row and col; a cluster with no such member yields no candidate (stated of
\* the field the analysis has just run on).
RepresentativeIsLowestClear ==
  lastEvent.analysed =>
  LET clusters == exploredClusters(bubbles, anchorPos, canvas.w)
  IN /\ lastEvent.allClusters = candidatesOf(clusters, 1)
     /\ \A k \in 1..Len(clusters) :
          LET clear == ClearMembers(bubbles, anchorPos, clusters[k].members)
          IN IF clear = {}
             THEN clusters[k].candidate = <<>>
             ELSE /\ Len(clusters[k].candidate) = 1
                  /\ clusters[k].candidate[1].id \in clear
                  /\ \A j \in clear :
                       bubbles[j].y <= bubbles[clusters[k].candidate[1].id].y
                  /\ clusters[k].candidate[1].row
                       = bubbles[clusters[k].candidate[1].id].row
                  /\ clusters[k].candidate[1].col
                       = bubbles[clusters[k].candidate[1].id].col

\* the analysis ran on a field with a cluster that has no clear member and a
\* cluster whose representative is not its lowest member, that one's path
\* being blocked
RepresentativeIsLowestClearWitness ==
  /\ lastEvent.analysed
  /\ LET clusters == exploredClusters(bubbles, anchorPos, canvas.w)
     IN /\ \E k \in 1..Len(clusters) : clusters[k].candidate = <<>>
        /\ \E k \in 1..Len(clusters) :
             /\ clusters[k].candidate # <<>>
             /\ \E i \in SeqToSet(clusters[k].members) :
                  /\ bubbles[i].y > bubbles[clusters[k].candidate[1].id].y
                  /\ ~isPathClear(bubbles, anchorPos, i)

(***************************************************************************)
(* All three stages unlocked, frames with no hand: the ceiling timer       *)
(***************************************************************************)
\* the component as constructed, every stage unlocked
InitCeiling ==
  /\ canvas \in {[w |-> c[1], h |-> c[2]] : c \in Containers}
  /\ anchorPos = Point(0, 0)
  /\ ballPos = Point(0, 0)
  /\ ballVel = Point(0, 0)
  /\ isPinching = FALSE
  /\ isFlying = FALSE
  /\ flightElapsed = 0
  /\ dropElapsed = 0
  /\ bubbles = <<>>
  /\ score = 0
  /\ unlockedStages = <<"sea", "island", "volcano">>
  /\ effUnlocked = <<"sea", "island", "volcano">>
  /\ selectedColor = "red"
  /\ availableColors = <<>>
  /\ isGameOver = FALSE
  /\ isMenuOpen = FALSE
  /\ gameStage = "sea"
  /\ currentLevel = 1
  /\ levelTimers = <<>>
  /\ effectDirty = TRUE
  /\ captureRequestRef = FALSE
  /\ scanTimers = 0
  /\ analysisQueued = 0
  /\ requests = <<>>
  /\ isAiThinking = FALSE
  /\ aimTarget = NoTarget
  /\ aiRecommendedColor = NoColor
  /\ shots = 0
  /\ drops = 0
  /\ clears = 0
  /\ lastEvent = NoEvent

\* frame intervals: none, 6 s, 20 s
CeilingDeltas == {0, 6000, 20000}

\* one frame with no hand delivered to onResults
CeilingFrame ==
  /\ Idle
  /\ \E dt \in CeilingDeltas, rowColors \in RowPatterns :
       \E r \in {onResults(State, NoHand, dt, rowColors)} :
          /\ TickFollowed(State, r, shots, drops, clears)
          /\ FrameOutcome(r)
          /\ UNCHANGED <<canvas, anchorPos>>

\* the effect, frames, the dashboard and the restart button
NextCeiling ==
  \/ GameLoopEffect
  \/ CeilingFrame
  \/ toggleMenu
  \/ handleStageSelect
  \/ handleRestart

SpecCeiling == InitCeiling /\ [][NextCeiling]_vars

\* the stage interval in ms, for the stages that have one
StageInterval(stage) == IF stage = "island" THEN 20000 ELSE 10000

\* C30: a frame advances the ceiling only if the time since the last advance,
\* grid reset or stage selection, the frame's dt included, exceeds the stage
\* interval (20000 ms on 'island', 10000 ms on 'volcano'), however many
\* frames came before; never in 'sea', with the menu open or after game
\* over; and one frame adds one row.
AdvanceOnlyPastInterval ==
  \A dt \in CeilingDeltas, rowColors \in RowPatterns :
     LET r == onResults(State, NoHand, dt, rowColors)
     IN r.event.dropped =>
          /\ gameStage \in {"island", "volcano"}
          /\ ~isMenuOpen
          /\ ~isGameOver
          /\ dt > 0
          /\ dropElapsed + dt > StageInterval(gameStage)
          /\ Len(r.bubbles) = Len(bubbles) + GRID_COLS
          /\ r.dropElapsed = 0

\* the ceiling advanced a second time on 'volcano', and another advance is
\* not due before the clock advances
AdvanceOnlyPastIntervalWitness ==
  /\ lastEvent.dropped
  /\ gameStage = "volcano"
  /\ drops = 2
  /\ dropElapsed = 0
  /\ \A rowColors \in RowPatterns :
       ~onResults(State, NoHand, 0, rowColors).event.dropped

\* C36: a ceiling advance preserves adjacency among the bubbles that existed
\* before it: isNeighbor(a, b) after the advance equals isNeighbor(a, b)
\* before it, for every two of them.
AdvanceKeepsAdjacency ==
  [][lastEvent'.dropped /\ ~lastEvent'.landed =>
       LET k == Prepended(bubbles, bubbles', FALSE)
       IN \A i, j \in 1..Len(bubbles) :
            isNeighbor(bubbles'[i + k], bubbles'[j + k]) = isNeighbor(bubbles[i], bubbles[j])]_vars

(***************************************************************************)
(* The first stage with shots aimed at the side walls                      *)
(***************************************************************************)
\* hands that take the projectile 90 px below the anchor, then draw it
\* 170 px to the right or to the left and 30 px down, and no hand
WallHands ==
  {NoHand,
   [present |-> TRUE, dx |-> 0, dy |-> 900, pinchDist |-> 3],
   [present |-> TRUE, dx |-> 1700, dy |-> 300, pinchDist |-> 3],
   [present |-> TRUE, dx |-> -1700, dy |-> 300, pinchDist |-> 3]}

\* one frame delivered to onResults, the hand drawn from WallHands
WallFrame ==
  /\ Idle
  /\ \E hand \in WallHands, dt \in TickDeltas, rowColors \in RowPatterns :
       \E r \in {onResults(State, hand, dt, rowColors)} :
          /\ TickFollowed(State, r, shots, drops, clears)
          /\ FrameOutcome(r)
          /\ UNCHANGED <<canvas, anchorPos>>

\* the effect, frames, and the analysis they queue
NextWall ==
  \/ GameLoopEffect
  \/ WallFrame
  \/ performAiAnalysis

SpecWall == Init /\ [][NextWall]_vars

\* the sub-steps the next frame runs for the projectile in flight
NextSubSteps ==
  subStepTrace(bubbles, ballPos, ballVel, 0, stepCount(ballVel), canvas.w)

\* C32: during flight the projectile's x lies within [radius, width - radius]
\* after every sub-step, and a sub-step that reflects at a wall negates
\* velocity.x and leaves velocity.y, so the speed is the same.
StaysBetweenWalls ==
  isFlying =>
    /\ ballPos.x \in BUBBLE_RADIUS..(canvas.w - BUBBLE_RADIUS)
    /\ \A k \in DOMAIN NextSubSteps :
         /\ NextSubSteps[k].pos.x \in BUBBLE_RADIUS..(canvas.w - BUBBLE_RADIUS)
         /\ NextSubSteps[k].bounced =>
              /\ NextSubSteps[k].vel.x = -NextSubSteps[k].before.x
              /\ NextSubSteps[k].vel.y = NextSubSteps[k].before.y
         /\ ~NextSubSteps[k].bounced => NextSubSteps[k].vel = NextSubSteps[k].before

\* a shot launched to the left that is left of every draw position and flies
\* to the right: it was reflected by the left wall; the next frame takes it on
StaysBetweenWallsWitness ==
  /\ isFlying
  /\ ballPos.x < anchorPos.x - MAX_DRAG_DIST
  /\ ballVel.x > 0
  /\ Len(NextSubSteps) > 0

(***************************************************************************)
(* The game with a menu and a window that grows taller                     *)
(***************************************************************************)
\* the container as mounted, and the same container 250 px taller
TallerContainers == {<<6000, 5500>>, <<6000, 8000>>}

\* one frame delivered to onResults after the window grew or shrank
TallerFrame == ResizedFrameTo(TallerContainers)

\* frames, resized or not, the menu button, and the analysis frames queue
NextTaller ==
  \/ GameLoopEffect
  \/ Tick
  \/ TallerFrame
  \/ toggleMenu
  \/ performAiAnalysis

SpecTaller == Init /\ [][NextTaller]_vars

\* C33: while the projectile is aimed (isPinching), at the end of every tick
\* its distance from the anchor is at most MAX_DRAG_DIST, whatever position
\* the hand is reported at.
DrawnWithinMaxDrag ==
  isPinching =>
    DistSq(ballPos.x, ballPos.y, anchorPos.x, anchorPos.y) <= MAX_DRAG_DIST * MAX_DRAG_DIST

(***************************************************************************)
(* The first stage with two shots and the advisor                          *)
(***************************************************************************)
\* shots followed in this game
MaxLateShots == 2

\* one frame delivered to onResults; a second shot is followed
LateFrame ==
  /\ Idle
  /\ \E hand \in HandInputs, dt \in {0}, rowColors \in RowPatterns :
       \E r \in {onResults(State, hand, dt, rowColors)} :
          /\ r.event.launched => shots < MaxLateShots
          /\ r.levelCleared => clears < MaxClears
          /\ FrameOutcome(r)
          /\ UNCHANGED <<canvas, anchorPos>>

\* a response arrives, and the older outstanding requests are marked
LateHintArrives == StrategicHintFrom(TRUE)

\* the effect, frames, the scan timeout, the analysis and its responses
NextLate ==
  \/ GameLoopEffect
  \/ LateFrame
  \/ ScanTimerFires
  \/ performAiAnalysis
  \/ LateHintArrives

SpecLate == Init /\ [][NextLate]_vars

\* the colors of the active bubbles of a field
ColorsOnField(bs) == {bs[i].color : i \in {k \in 1..Len(bs) : bs[k].active}}

\* C35: whenever a shot is launched while the field has an active bubble, the
\* selected color is the color of an active bubble, also after an advisor
\* response set the selected color to the color it recommends.
ShotColorIsOnField ==
  [][(lastEvent'.launched /\ ColorsOnField(bubbles') # {})
       => selectedColor' \in ColorsOnField(bubbles')]_vars

(***************************************************************************)
(* The last level of the first stage, with the menu                        *)
(***************************************************************************)
\* shots, level clears and pending level-cleared timeouts followed here
MaxUnlockShots == 2
MaxUnlockClears == 2
MaxUnlockTimers == 2

\* the moment the fifth level of the first stage is entered: four levels
\* cleared (600 points each), currentLevel set, the effect about to re-run
InitLastLevel ==
  /\ canvas \in {[w |-> c[1], h |-> c[2]] : c \in Containers}
  /\ anchorPos = Point(canvas.w \div 2, canvas.h - SLINGSHOT_BOTTOM_OFFSET)
  /\ ballPos = anchorPos
  /\ ballVel = Point(0, 0)
  /\ isPinching = FALSE
  /\ isFlying = FALSE
  /\ flightElapsed = 0
  /\ dropElapsed = 0
  /\ bubbles = <<>>
  /\ score = 2400
  /\ unlockedStages = <<"sea">>
  /\ effUnlocked = <<"sea">>
  /\ selectedColor = "red"
  /\ availableColors = <<>>
  /\ isGameOver = FALSE
  /\ isMenuOpen = FALSE
  /\ gameStage = "sea"
  /\ currentLevel = MAX_LEVELS_PER_STAGE
  /\ levelTimers = <<>>
  /\ effectDirty = TRUE
  /\ captureRequestRef = FALSE
  /\ scanTimers = 0
  /\ analysisQueued = 0
  /\ requests = <<>>
  /\ isAiThinking = FALSE
  /\ aimTarget = NoTarget
  /\ aiRecommendedColor = NoColor
  /\ shots = 0
  /\ drops = 0
  /\ clears = 0
  /\ lastEvent = NoEvent

\* one frame delivered to onResults, within 1500 ms of the one before
UnlockFrame ==
  /\ Idle
  /\ \E hand \in HandInputs, dt \in {0}, rowColors \in RowPatterns :
       \E r \in {onResults(State, hand, dt, rowColors)} :
          /\ r.event.launched => shots < MaxUnlockShots
          /\ r.levelCleared => clears < MaxUnlockClears
          /\ FrameOutcomeWith(r, MaxUnlockTimers)
          /\ UNCHANGED <<canvas, anchorPos>>

\* the effect, frames, the level-cleared timeouts, the menu and its stage
\* buttons, and the analysis frames queue
NextUnlock ==
  \/ GameLoopEffect
  \/ UnlockFrame
  \/ LevelTimerFires
  \/ toggleMenu
  \/ handleStageSelect
  \/ performAiAnalysis

SpecUnlock == InitLastLevel /\ [][NextUnlock]_vars

\* C40: the unlocked stages contain 'sea', contain 'volcano' only together
\* with 'island', hold no stage twice, and the current stage is one of them.
StagesOrderedAndLocked ==
  /\ "sea" \in SeqToSet(unlockedStages)
  /\ "volcano" \in SeqToSet(unlockedStages) => "island" \in SeqToSet(unlockedStages)
  /\ Cardinality(SeqToSet(unlockedStages)) = Len(unlockedStages)
  /\ gameStage \in SeqToSet(unlockedStages)

(***************************************************************************)
(* The first stage with a grid drawn without gaps                          *)
(***************************************************************************)
\* the effect, frames, the analysis they queue, and the color dock
NextFullGrid ==
  \/ FullGridEffect
  \/ Tick
  \/ handleColorSelect
  \/ performAiAnalysis

SpecFullGrid == Init /\ [][NextFullGrid]_vars

\* the bubbles of a row
InRow(bs, r) == {i \in 1..Len(bs) : bs[i].row = r}

\* C16: initGrid (4 rows, 12 columns), when no cell is drawn as a gap, makes
\* exactly 46 bubbles, all active: 12 in each of the rows 0 and 2, 11 in
\* each of the rows 1 and 3, no two in the same (row, col).
FullGridHasFortySix ==
  [][(effectDirty /\ ~effectDirty') =>
       /\ Len(bubbles') = 46
       /\ \A i \in 1..Len(bubbles') : bubbles'[i].active
       /\ \A r \in {0, 2} : Cardinality(InRow(bubbles', r)) = 12
       /\ \A r \in {1, 3} : Cardinality(InRow(bubbles', r)) = 11
       /\ Cardinality(OccupiedCells(bubbles')) = 46]_vars

\* the grid as initGrid left it, before any frame
FullGridHasFortySixWitness ==
  /\ ~effectDirty
  /\ shots = 0
  /\ lastEvent = NoEvent
  /\ Len(bubbles) = 46
  /\ \A cell \in InitCellSet : Cardinality(ActiveAt(bubbles, cell)) = 1

\* the cell of bubble b is a cell of the offset layout
InValidCell(b) == b.row >= 0 /\ b.col \in 0..(ColsInRow(b.row) - 1)

\* squared distance between the layout positions of the cells of a and b, the
\* rows being BUBBLE_RADIUS * sqrt(3) apart: dx^2 + 3 * radius^2 * dr^2
LayoutDistSq(a, b, width) ==
  LET dx == getBubblePos(b.row, b.col, width).x - getBubblePos(a.row, a.col, width).x
      dr == b.row - a.row
  IN dx * dx + 3 * BUBBLE_RADIUS * BUBBLE_RADIUS * dr * dr

\* C31: for any two bubbles in distinct valid cells of a field the game
\* produces, isNeighbor(a, b) holds if and only if the squared distance
\* between getBubblePos(a) and getBubblePos(b) equals (2 * radius)^2.
NeighborIffTouching ==
  [][bubbles' # bubbles =>
       \A i, j \in 1..Len(bubbles') :
          ( /\ InValidCell(bubbles'[i])
            /\ InValidCell(bubbles'[j])
            /\ <<bubbles'[i].row, bubbles'[i].col>> # <<bubbles'[j].row, bubbles'[j].col>> )
          => ( isNeighbor(bubbles'[i], bubbles'[j])
               <=> LayoutDistSq(bubbles'[i], bubbles'[j], canvas'.w)
                     = (2 * BUBBLE_RADIUS) * (2 * BUBBLE_RADIUS) )]_vars

\* a grid without gaps that a shot has landed on: an odd-row cell touching
\* the cell below it to the right, and a cell one column away in the next row
\* that does not touch
NeighborIffTouchingWitness ==
  /\ lastEvent.landed
  /\ Len(bubbles) > Len(CellsOfRows(0, baseRows))
  /\ \E i, j, k \in 1..Len(bubbles) :
       /\ InValidCell(bubbles[i]) /\ InValidCell(bubbles[j]) /\ InValidCell(bubbles[k])
       /\ bubbles[i].row % 2 = 1
       /\ bubbles[j].row = bubbles[i].row + 1
       /\ bubbles[j].col = bubbles[i].col + 1
       /\ bubbles[k].row = bubbles[i].row + 1
       /\ bubbles[k].col = bubbles[i].col - 1
       /\ isNeighbor(bubbles[i], bubbles[j])
       /\ ~isNeighbor(bubbles[i], bubbles[k])
       /\ LayoutDistSq(bubbles[i], bubbles[k], canvas.w)
            > (2 * BUBBLE_RADIUS) * (2 * BUBBLE_RADIUS)

====
